---- MODULE Spec2Model ----
(***************************************************************************)
(* Model of the command-processing core of the WhatsApp bot framework:     *)
(* state manager, permission manager, session manager, command parser and  *)
(* message router.                                                         *)
(***************************************************************************)
EXTENDS Integers, Sequences, FiniteSets, TLC

(***************************************************************************)
(* Bounds of the model.                                                    *)
(***************************************************************************)
\* longest blacklist (root or group) the model builds
MaxBlacklist == 2
\* latest clock reading the model reaches
MaxTime == 3
\* most sessions the store holds
MaxSessions == 2
\* most commands of one message whose handler results are drawn
MaxCommands == 2
\* most records the storage lists of the document hold in all
MaxItems == 2

(***************************************************************************)
(* Program constants.                                                      *)
(***************************************************************************)
\* SessionManager.sessionTimeout (five minutes), in clock units of five minutes
sessionTimeout == 1

(***************************************************************************)
(* Values.                                                                 *)
(***************************************************************************)
\* JS null / undefined for scalar values
Null == "null"

GroupChats == {"g1@g.us"}
PrivateChats == {"p1@s.whatsapp.net"}
Chats == GroupChats \cup PrivateChats
Users == {"u1", "u2"}
Services == {"exp", "chatbot"}
Wild == "*"

\* an optional list field of a JS object: absent, or a list read as a set
Absent == [has |-> FALSE, items |-> {}]
Some(s) == [has |-> TRUE, items |-> s]

Range(f) == {f[i] : i \in DOMAIN f}

\* `map.set(key, value)`
MapSet(map, key, value) ==
    [k \in DOMAIN map \cup {key} |-> IF k = key THEN value ELSE map[k]]

\* `map.delete(key)`
MapDelete(map, key) == [k \in DOMAIN map \ {key} |-> map[k]]

(***************************************************************************)
(* Schema catalog (immutable after load).                                  *)
(***************************************************************************)
Req(n, t) == [name |-> n, type |-> t, optional |-> FALSE, hasDefault |-> FALSE]
Opt(n, t) == [name |-> n, type |-> t, optional |-> TRUE, hasDefault |-> FALSE]
Syn(roles, params) == [allowedRoles |-> roles, parameters |-> params]
Cmd(inter, syns) == [interactive |-> inter, hasSyntaxes |-> TRUE, syntaxes |-> syns]

ExpService ==
    [allowInPrivateChat |-> FALSE,
     oneCmdPerMsg |-> FALSE,
     roles |-> <<"admin", "member", "parent", "child">>,
     commands |->
       [add |-> Cmd(TRUE,
                    <<Syn(Some({"member", "child"}),
                          <<Req("amount", "int"), Req("item", "string")>>),
                      Syn(Some({"admin", "parent"}),
                          <<Req("childNo", "int"), Req("amount", "int"),
                                              Req("item", "string")>>)>>),
        edit |-> Cmd(TRUE,
                     <<Syn(Some({"child"}), <<Req("itemNo", "int"), Opt("price", "int"),
                                             Opt("item", "string")>>),
                       Syn(Some({"parent"}), <<Req("childNo", "int"), Req("itemNo", "int"),
                                              Opt("price", "int"), Opt("item", "string")>>)>>),
        remove |-> Cmd(FALSE, <<Syn(Some({"member", "child"}), <<Req("itemNos", "int")>>)>>),
        list |-> Cmd(TRUE, <<Syn(Some({Wild}), <<>>)>>)]]

ChatbotService ==
    [allowInPrivateChat |-> TRUE,
     oneCmdPerMsg |-> TRUE,
     roles |-> <<"admin", "member">>,
     commands |->
       [sendMessage |-> Cmd(FALSE, <<Syn(Some({"member", "admin"}),
                                         <<Req("prompt", "string")>>)>>),
        clearHistory |-> Cmd(TRUE, <<Syn(Some({"admin"}), <<>>)>>)]]

ServiceRegistry == [exp |-> ExpService, chatbot |-> ChatbotService]

builtinDef ==
    [commands |-> [ping |-> Cmd(TRUE, <<Syn(Absent, <<>>)>>)]]

adminDef ==
    [commands |->
       [addBlacklist |-> Cmd(TRUE, <<Syn(Absent, <<Req("userId", "UserId"),
                                                   Opt("services", "Service"),
                                                   Opt("commands", "Command")>>)>>)]]

rootDef ==
    [commands |->
       [addRoot |-> Cmd(TRUE, <<Syn(Absent, <<Req("userId", "UserId")>>)>>),
        removeRoot |-> Cmd(TRUE, <<Syn(Absent, <<Req("userId", "UserId")>>)>>),
        installService |-> Cmd(TRUE, <<Syn(Absent, <<Req("chatId", "GroupId|UserId"),
                                                     Req("service", "Service")>>)>>),
        removeService |-> Cmd(TRUE, <<Syn(Absent, <<Req("chatId", "GroupId|UserId"),
                                                    Req("service", "Service")>>)>>),
        addBlacklist |-> Cmd(TRUE, <<Syn(Absent, <<Req("userId", "UserId"),
                                                   Opt("groups", "GroupId"),
                                                   Opt("services", "Service"),
                                                   Opt("commands", "Command")>>)>>)]]

\* ServiceLoader.getService: is there a definition (the result is truthy)
hasService(name) == name \in DOMAIN ServiceRegistry

\* ServiceLoader.getService, where it returns a definition
getService(name) == ServiceRegistry[name]

\* the commands mapping of a scope (builtin, admin, root or a service id)
ScopeCommands(scope) ==
    CASE scope = "builtin" -> builtinDef.commands
      [] scope = "admin" -> adminDef.commands
      [] scope = "root" -> rootDef.commands
      [] scope \in DOMAIN ServiceRegistry -> ServiceRegistry[scope].commands
      [] OTHER -> <<>>

\* ServiceLoader.getCommandDefinition: is there a definition
hasCommandDefinition(scope, commandName) == commandName \in DOMAIN ScopeCommands(scope)

\* ServiceLoader.getCommandDefinition, where it returns a definition
getCommandDefinition(scope, commandName) == ScopeCommands(scope)[commandName]

\* `commandDef.syntaxes || [{ parameters: commandDef.syntax?.parameters || {} }]`
SyntaxesOf(commandDef) ==
    IF commandDef.hasSyntaxes THEN commandDef.syntaxes ELSE <<Syn(Absent, <<>>)>>

(***************************************************************************)
(* State.                                                                  *)
(***************************************************************************)
VARIABLES
    state,      \* StateManager.state, the BotState document: rootUsers,
                \* rootSettings, chats, sessions
    now,        \* wall clock (Date.now()), in units of five minutes
    last,       \* what the last operation did (observation only)
    inflight    \* the messages being routed: each one's position at an await
                \* on I/O, and its local variables

vars == <<state, now, last, inflight>>

\* a Map with no entries
EmptyMap == [k \in {} |-> TRUE]

NoChat == [exists |-> FALSE]
NoService == [installed |-> FALSE]

\* StateManager.initializeState: the document created on first boot
InitialState ==
    [rootUsers |-> {"u1"},
     rootSettings |-> [isEnabled |-> TRUE, blackList |-> <<>>],
     chats |-> [c \in Chats |-> NoChat],
     sessions |-> <<>>]

\* StateManager.ensureChat: the document a new chat gets
NewChat(chatType) ==
    [exists |-> TRUE,
     chatType |-> chatType,
     adminSettings |-> [disableServicePrefix |-> Null,
                        isEnabled |-> TRUE,
                        argsOnlyCommand |-> [has |-> FALSE],
                        replyOnParsingError |-> FALSE,
                        blackList |-> <<>>],
     services |-> [s \in Services |-> NoService]]

\* StateManager.ensureChat (default chatType = 'group')
ensureChat(st, chatId, chatType) ==
    IF st.chats[chatId].exists THEN st
    ELSE [st EXCEPT !.chats[chatId] = NewChat(chatType)]

\* StateManager.getChatSettings: `chat?.adminSettings`
getChatSettings(st, chatId) ==
    IF st.chats[chatId].exists THEN Some(st.chats[chatId].adminSettings)
    ELSE [has |-> FALSE]

\* StateManager.isRootUser
isRootUser(st, userId) == userId \in st.rootUsers

\* StateManager.getRootBlacklist
getRootBlacklist(st) == st.rootSettings.blackList

\* StateManager.getGroupBlacklist
getGroupBlacklist(st, chatId) ==
    IF st.chats[chatId].exists THEN st.chats[chatId].adminSettings.blackList ELSE <<>>

\* StateManager.isServiceInstalled
isServiceInstalled(st, chatId, serviceName) ==
    /\ st.chats[chatId].exists
    /\ serviceName \in Services
    /\ st.chats[chatId].services[serviceName].installed

\* StateManager.getInstalledServices
getInstalledServices(st, chatId) ==
    IF st.chats[chatId].exists
    THEN {s \in Services : st.chats[chatId].services[s].installed}
    ELSE {}

\* StateManager.getServiceSettings: the serviceSettings map as an object
getServiceSettings(st, chatId, serviceName) ==
    IF isServiceInstalled(st, chatId, serviceName)
    THEN st.chats[chatId].services[serviceName].serviceSettings
    ELSE <<>>

\* StateManager.getUserServiceRoles: the names of the roles that list the user
getUserServiceRoles(st, userId, chatId, serviceName) ==
    IF ~isServiceInstalled(st, chatId, serviceName) THEN {}
    ELSE LET roles == st.chats[chatId].services[serviceName].roles
         IN {r \in DOMAIN roles : userId \in Range(roles[r]) \/ Wild \in Range(roles[r])}

\* StateManager.userHasAdminRole
userHasAdminRole(st, userId, chatId) ==
    /\ st.chats[chatId].exists
    /\ \E s \in Services :
         /\ st.chats[chatId].services[s].installed
         /\ "admin" \in DOMAIN st.chats[chatId].services[s].roles
         /\ LET adminUsers == Range(st.chats[chatId].services[s].roles["admin"])
            IN userId \in adminUsers \/ Wild \in adminUsers

(***************************************************************************)
(* State manager: mutations.  Each returns the document after the call.    *)
(***************************************************************************)
\* StateManager.addRootUser
addRootUser(st, userId) == [st EXCEPT !.rootUsers = @ \cup {userId}]

\* StateManager.removeRootUser
removeRootUser(st, userId) == [st EXCEPT !.rootUsers = @ \ {userId}]

\* StateManager.setRootSetting, for the key 'isEnabled'
setRootSetting(st, value) == [st EXCEPT !.rootSettings.isEnabled = value]

\* StateManager.setAdminSetting, for the key 'isEnabled'
setAdminSetting(st, chatId, value) ==
    [ensureChat(st, chatId, "group") EXCEPT !.chats[chatId].adminSettings.isEnabled = value]

\* StateManager.addToRootBlacklist
addToRootBlacklist(st, entry) ==
    [st EXCEPT !.rootSettings.blackList = Append(@, entry)]

\* StateManager.addToGroupBlacklist
addToGroupBlacklist(st, chatId, entry) ==
    [ensureChat(st, chatId, "group") EXCEPT
        !.chats[chatId].adminSettings.blackList = Append(@, entry)]

\* a filter that leaves no list behind when it removes the last item
FilterFieldDroppingEmpty(field, arg) ==
    IF arg.has
    THEN IF field.items \ (arg.items \cup {Wild}) = {} THEN Absent
         ELSE Some(field.items \ (arg.items \cup {Wild}))
    ELSE field

\* `entry.f = entry.f.filter(x => !arg.includes(x) && x !== '*')` under
\* `if (arg)`: the field afterwards
FilterField(field, arg) ==
    IF arg.has THEN Some(field.items \ (arg.items \cup {Wild})) ELSE field

\* the filter callback of removeFromRootBlacklist / removeFromGroupBlacklist on
\* an entry of the user: the entry as the callback leaves it, whether the
\* callback threw (`.filter` of an absent list), and whether it keeps the entry.
\* The group variant is the callback with no groups argument and no groups
\* term in its result.
FilterCallback(entry, groups, services, commands, isRoot) ==
    IF groups.has /\ ~entry.groups.has
    THEN [entry |-> entry, threw |-> TRUE, keep |-> TRUE]
    ELSE LET e1 == [entry EXCEPT !.groups = FilterField(@, groups)]
         IN IF services.has /\ ~entry.services.has
            THEN [entry |-> e1, threw |-> TRUE, keep |-> TRUE]
            ELSE LET e2 == [e1 EXCEPT !.services = FilterField(@, services)]
                 IN IF commands.has /\ ~entry.commands.has
                    THEN [entry |-> e2, threw |-> TRUE, keep |-> TRUE]
                    ELSE LET e3 == [e2 EXCEPT !.commands = FilterField(@, commands)]
                         IN [entry |-> e3, threw |-> FALSE,
                             keep |-> \/ (isRoot /\ e3.groups.items # {})
                                      \/ e3.services.items # {}
                                      \/ e3.commands.items # {}]

\* `blackList.filter(callback)`: walks the list from entry i on.  Entries are
\* changed in place, so when the callback throws the list keeps every entry,
\* the visited ones as changed.
RECURSIVE FilterWalk(_, _, _, _, _, _, _)
FilterWalk(list, i, userId, groups, services, commands, isRoot) ==
    IF i > Len(list) THEN [inPlace |-> <<>>, kept |-> <<>>, threw |-> FALSE]
    ELSE IF list[i].userId # userId
    THEN LET rest == FilterWalk(list, i + 1, userId, groups, services, commands, isRoot)
         IN [inPlace |-> <<list[i]>> \o rest.inPlace,
             kept |-> <<list[i]>> \o rest.kept,
             threw |-> rest.threw]
    ELSE LET r == FilterCallback(list[i], groups, services, commands, isRoot)
         IN IF r.threw
            THEN [inPlace |-> <<r.entry>> \o SubSeq(list, i + 1, Len(list)),
                  kept |-> <<>>, threw |-> TRUE]
            ELSE LET rest == FilterWalk(list, i + 1, userId, groups, services,
                                        commands, isRoot)
                 IN [inPlace |-> <<r.entry>> \o rest.inPlace,
                     kept |-> (IF r.keep THEN <<r.entry>> ELSE <<>>) \o rest.kept,
                     threw |-> rest.threw]

\* the list a removal leaves behind
FilteredList(list, userId, groups, services, commands, isRoot) ==
    LET w == FilterWalk(list, 1, userId, groups, services, commands, isRoot)
    IN IF w.threw THEN w.inPlace ELSE w.kept

\* StateManager.removeFromRootBlacklist
removeFromRootBlacklist(st, userId, groups, services, commands) ==
    [st EXCEPT !.rootSettings.blackList =
        FilteredList(@, userId, groups, services, commands, TRUE)]

\* StateManager.removeFromGroupBlacklist
removeFromGroupBlacklist(st, chatId, userId, services, commands) ==
    IF ~st.chats[chatId].exists THEN st
    ELSE [st EXCEPT !.chats[chatId].adminSettings.blackList =
            FilteredList(@, userId, Absent, services, commands, FALSE)]

\* a roles map whose further roles start with the members
InstallRolesSharingMembers(admins, members, serviceRoles) ==
    [r \in {"admin", "member"} \cup Range(serviceRoles) |->
        IF r = "admin" THEN admins ELSE members]

\* the roles map installService builds: admin, member, then the service's
\* further roles, each empty
InstallRoles(admins, members, serviceRoles) ==
    [r \in {"admin", "member"} \cup Range(serviceRoles) |->
        IF r = "admin" THEN admins ELSE IF r = "member" THEN members ELSE <<>>]

\* StateManager.installService
installService(st, chatId, serviceName, chatType, admins, members, serviceRoles) ==
    LET st1 == ensureChat(st, chatId, chatType)
    IN IF st1.chats[chatId].services[serviceName].installed THEN st1
       ELSE [st1 EXCEPT !.chats[chatId].services[serviceName] =
                [installed |-> TRUE,
                 roles |-> InstallRoles(admins, members, serviceRoles),
                 serviceSettings |-> [isEnabled |-> TRUE],
                 storage |-> <<>>]]

\* StateManager.removeService
removeService(st, chatId, serviceName) ==
    IF st.chats[chatId].exists /\ st.chats[chatId].services[serviceName].installed
    THEN [st EXCEPT !.chats[chatId].services[serviceName] = NoService]
    ELSE st

\* StateManager.setServiceSetting, for the key 'isEnabled'
setServiceSetting(st, chatId, serviceName, value) ==
    LET st1 == installService(st, chatId, serviceName, "group", <<>>, <<>>, <<>>)
    IN [st1 EXCEPT !.chats[chatId].services[serviceName].serviceSettings =
            [isEnabled |-> value]]

\* StateManager.addUserRole
addUserRole(st, chatId, serviceName, userId, role) ==
    LET st1 == installService(st, chatId, serviceName, "group", <<>>, <<>>, <<>>)
        roles == st1.chats[chatId].services[serviceName].roles
        users == IF role \in DOMAIN roles THEN roles[role] ELSE <<>>
        users2 == IF userId \in Range(users) THEN users ELSE Append(users, userId)
    IN [st1 EXCEPT !.chats[chatId].services[serviceName].roles =
            [r \in DOMAIN roles \cup {role} |-> IF r = role THEN users2 ELSE roles[r]]]

\* `users.splice(users.indexOf(userId), 1)`: the list without the first
\* occurrence of the user
RemoveFirst(users, userId) ==
    IF userId \notin Range(users) THEN users
    ELSE LET i == CHOOSE k \in DOMAIN users :
                    users[k] = userId /\ \A j \in 1..(k - 1) : users[j] # userId
         IN SubSeq(users, 1, i - 1) \o SubSeq(users, i + 1, Len(users))

\* StateManager.removeUserRole
removeUserRole(st, chatId, serviceName, userId, role) ==
    IF /\ isServiceInstalled(st, chatId, serviceName)
       /\ role \in DOMAIN st.chats[chatId].services[serviceName].roles
    THEN [st EXCEPT !.chats[chatId].services[serviceName].roles[role] =
            RemoveFirst(@, userId)]
    ELSE st

\* the position of the session stored under `key`, 0 when there is none
SessionIndex(st, key) ==
    IF \E i \in DOMAIN st.sessions : st.sessions[i].key = key
    THEN CHOOSE i \in DOMAIN st.sessions : st.sessions[i].key = key
    ELSE 0

\* StateManager.saveSession: Map.set keeps the place of a key already there
saveSession(st, key, session) ==
    IF SessionIndex(st, key) = 0
    THEN [st EXCEPT !.sessions = Append(@, session)]
    ELSE [st EXCEPT !.sessions[SessionIndex(st, key)] = session]

\* StateManager.deleteSession
deleteSession(st, key) ==
    LET i == SessionIndex(st, key)
    IN IF i = 0 THEN st
       ELSE [st EXCEPT !.sessions = SubSeq(@, 1, i - 1) \o SubSeq(@, i + 1, Len(@))]

(***************************************************************************)
(* Command parser.  A message body is the list of its trimmed non-empty    *)
(* lines; a line is given by whether it carries the invoke prefix ('.')    *)
(* and by the tokens `tokenize` cuts it into.                              *)
(***************************************************************************)
\* tokens that are white space only (written quoted, as in `.exp add " "`)
BlankTokens == {" "}

\* String.toLowerCase on the words the model uses
toLowerCase(word) ==
    CASE word = "addRoot" -> "addroot"
      [] word = "removeRoot" -> "removeroot"
      [] word = "installService" -> "installservice"
      [] word = "addBlacklist" -> "addblacklist"
      [] word = "sendMessage" -> "sendmessage"
      [] word = "clearHistory" -> "clearhistory"
      [] word = "Cancel" -> "cancel"
      [] word = "SKIP" -> "skip"
      [] OTHER -> word

\* Array.join(' ') on the token lists the model's messages give rise to
Join(tokens) ==
    CASE Len(tokens) = 0 -> ""
      [] Len(tokens) = 1 -> tokens[1]
      [] tokens = <<"5", "milk">> -> "5 milk"
      [] tokens = <<"milk", "bread">> -> "milk bread"
      [] OTHER -> "several words"

\* `rawArgs.trim() === ''` on the joined tokens
IsBlank(tokens) == \A i \in DOMAIN tokens : tokens[i] \in BlankTokens

\* CommandParser.tokenize applied to the joined raw arguments: a token that
\* was quoted white space does not survive the second tokenization
RECURSIVE tokenizeRaw(_)
tokenizeRaw(tokens) ==
    IF tokens = <<>> THEN <<>>
    ELSE (IF Head(tokens) \in BlankTokens THEN <<>> ELSE <<Head(tokens)>>)
         \o tokenizeRaw(Tail(tokens))

\* CommandParser.findCommandKey: is there a key
hasCommandKey(commands, input) ==
    \E key \in DOMAIN commands : toLowerCase(key) = toLowerCase(input)

\* CommandParser.findCommandKey, where it finds a key
findCommandKey(commands, input) ==
    IF input \in DOMAIN commands THEN input
    ELSE CHOOSE key \in DOMAIN commands : toLowerCase(key) = toLowerCase(input)

\* TypeParser.parse succeeds on the token (only its success is modelled; the
\* argument is bound to the value or to the raw token either way)
TypeOk(token, type) ==
    CASE type = "int" -> token \in {"5", "1", " "}
      [] type = "GroupId" -> token \in GroupChats
      [] type = "UserId" -> token \in PrivateChats
      [] OTHER -> TRUE

\* CommandParser.parseArgumentsByDefinition.  Every parameter before the last
\* takes one part, so parameter i reads part i while parts remain.
parseArgumentsByDefinition(parts, parameters) ==
    LET n == Len(parameters)
        bound == {i \in 1..n : i <= Len(parts) \/ parameters[i].hasDefault
                                               \/ parameters[i].optional}
        value(i) ==
            IF i > Len(parts)
            THEN (IF parameters[i].hasDefault THEN "default" ELSE Null)
            ELSE IF i = n /\ parameters[i].type \in {"string", "Arguments"}
                 THEN Join(SubSeq(parts, i, Len(parts)))
                 ELSE parts[i]
    IN [name \in {parameters[i].name : i \in bound} |->
            value(CHOOSE i \in bound : parameters[i].name = name)]

\* the parameters of syntax number syntaxIndex (JS index), {} past the end
ParametersOf(commandDef, syntaxIndex) ==
    LET syntaxes == SyntaxesOf(commandDef)
    IN IF syntaxIndex + 1 \in DOMAIN syntaxes
       THEN syntaxes[syntaxIndex + 1].parameters ELSE <<>>

\* CommandParser.parseArgumentsFromParts
parseArgumentsFromParts(parts, commandDef) ==
    parseArgumentsByDefinition(parts, ParametersOf(commandDef, 0))

\* CommandParser.getMissingArgs: the names, in declaration order
getMissingArgs(args, commandDef, syntaxIndex) ==
    LET parameters == ParametersOf(commandDef, syntaxIndex)
        missing(i) == /\ parameters[i].name \notin DOMAIN args
                      /\ ~parameters[i].optional
                      /\ ~parameters[i].hasDefault
    IN SelectSeq([i \in DOMAIN parameters |-> IF missing(i) THEN parameters[i].name
                                              ELSE Null],
                 LAMBDA x : x # Null)

\* a validation that accepts whatever was bound
validateArgsUnchecked(args, commandDef, syntaxIndex) == TRUE

\* CommandParser.validateArgs: valid
validateArgs(args, commandDef, syntaxIndex) ==
    LET parameters == ParametersOf(commandDef, syntaxIndex)
    IN \A i \in DOMAIN parameters :
          LET name == parameters[i].name
          IN IF name \notin DOMAIN args \/ args[name] = Null
             THEN parameters[i].optional \/ parameters[i].hasDefault
             ELSE TypeOk(args[name], parameters[i].type)

\* a parse result; syntaxIndex -1 and error Null stand for undefined, and
\* `interactive` holds `interactive !== false`
ParsedCommand(type, service, command, args, rawArgs, interactive, oneCmdPerMsg) ==
    [type |-> type, service |-> service, command |-> command, args |-> args,
     hasRawArgs |-> TRUE, rawArgs |-> rawArgs, interactive |-> interactive,
     oneCmdPerMsg |-> oneCmdPerMsg, argsOnly |-> FALSE, syntaxIndex |-> -1,
     error |-> Null]

\* a parse result that carries an error
ParseError(type, service, command, error) ==
    [type |-> type, service |-> service, command |-> command, args |-> EmptyMap,
     hasRawArgs |-> FALSE, rawArgs |-> <<>>, interactive |-> TRUE,
     oneCmdPerMsg |-> FALSE, argsOnly |-> FALSE, syntaxIndex |-> -1,
     error |-> error]

\* CommandParser.parseRootCommand / parseAdminCommand, for scope root or admin
parseScopedCommand(scope, parts) ==
    IF parts = <<>> THEN ParseError(scope, Null, Null, "No command specified")
    ELSE LET inputCommand == toLowerCase(parts[1])
             commands == ScopeCommands(scope)
         IN IF ~hasCommandKey(commands, inputCommand)
            THEN ParseError(scope, Null, inputCommand, "Unknown command")
            ELSE LET commandName == findCommandKey(commands, inputCommand)
                 IN ParsedCommand(scope, Null, commandName,
                                  parseArgumentsFromParts(Tail(parts), commands[commandName]),
                                  Tail(parts), commands[commandName].interactive, FALSE)

\* CommandParser.parseRootCommand
parseRootCommand(parts) == parseScopedCommand("root", parts)

\* CommandParser.parseAdminCommand
parseAdminCommand(parts) == parseScopedCommand("admin", parts)

\* CommandParser.parseBuiltinCommand: does it return a command
isBuiltinCommand(parts) == hasCommandKey(builtinDef.commands, toLowerCase(parts[1]))

\* CommandParser.parseBuiltinCommand, where it returns a command
parseBuiltinCommand(parts) == parseScopedCommand("builtin", parts)

\* CommandParser.parseServiceCommand
parseServiceCommand(serviceName, parts) ==
    IF ~hasService(serviceName)
    THEN ParseError("service", serviceName, Null, "Service not found")
    ELSE IF parts = <<>>
    THEN ParseError("service", serviceName, Null, "No command specified")
    ELSE LET inputCommand == toLowerCase(parts[1])
             service == getService(serviceName)
         IN IF ~hasCommandKey(service.commands, inputCommand)
            THEN ParseError("service", serviceName, inputCommand, "Unknown command")
            ELSE LET commandName == findCommandKey(service.commands, inputCommand)
                     command == service.commands[commandName]
                 IN ParsedCommand("service", serviceName, commandName,
                                  parseArgumentsFromParts(Tail(parts), command),
                                  Tail(parts), command.interactive,
                                  service.oneCmdPerMsg)

\* `firstPart.split('.', 2)` on the dotted words the model uses; <<>> when the
\* word has no dot
splitDot(word) ==
    CASE word = "exp.add" -> <<"exp", "add">>
      [] word = "exp.list" -> <<"exp", "list">>
      [] OTHER -> <<>>

\* CommandParser.parseServiceCommandFromParts
parseServiceCommandFromParts(parts) ==
    LET firstPart == parts[1]
        dotted == splitDot(firstPart)
    IN IF /\ dotted # <<>>
          /\ hasService(toLowerCase(dotted[1]))
          /\ hasCommandKey(getService(toLowerCase(dotted[1])).commands, dotted[2])
       THEN parseServiceCommand(toLowerCase(dotted[1]),
                <<findCommandKey(getService(toLowerCase(dotted[1])).commands, dotted[2])>>
                \o Tail(parts))
       ELSE IF hasService(toLowerCase(firstPart))
       THEN parseServiceCommand(toLowerCase(firstPart), Tail(parts))
       ELSE ParseError("unknown", Null, Null, "Unknown service or command")

\* CommandParser.parseCommandString, on the tokens of a command string that
\* has some (none gives null, see parseLine)
parseCommandString(parts, adminSettings) ==
    LET firstPart == toLowerCase(parts[1])
    IN IF firstPart = "root" THEN parseRootCommand(Tail(parts))
       ELSE IF firstPart = "admin" THEN parseAdminCommand(Tail(parts))
       ELSE IF isBuiltinCommand(parts) THEN parseBuiltinCommand(parts)
       ELSE IF /\ adminSettings.has
               /\ adminSettings.items.disableServicePrefix # Null
               /\ hasService(adminSettings.items.disableServicePrefix)
       THEN parseServiceCommand(adminSettings.items.disableServicePrefix, parts)
       ELSE parseServiceCommandFromParts(parts)

\* CommandParser.parseArgsOnlyLine: does the line parse in args-only mode
isArgsOnlyLine(tokens, adminSettings, installedServices) ==
    /\ adminSettings.has
    /\ adminSettings.items.argsOnlyCommand.has
    /\ LET argsOnlyCommand == adminSettings.items.argsOnlyCommand
       IN /\ argsOnlyCommand.service \in installedServices
          /\ hasService(argsOnlyCommand.service)
          /\ argsOnlyCommand.command \in DOMAIN getService(argsOnlyCommand.service).commands
          /\ LET command == getService(argsOnlyCommand.service).commands[argsOnlyCommand.command]
                 args == parseArgumentsFromParts(tokens, command)
             IN /\ validateArgs(args, command, 0)
                /\ getMissingArgs(args, command, 0) = <<>>

\* CommandParser.parseArgsOnlyLine, where it returns a command
parseArgsOnlyLine(tokens, adminSettings) ==
    LET argsOnlyCommand == adminSettings.items.argsOnlyCommand
        command == getService(argsOnlyCommand.service).commands[argsOnlyCommand.command]
    IN [ParsedCommand("service", argsOnlyCommand.service, argsOnlyCommand.command,
                      parseArgumentsFromParts(tokens, command), tokens, FALSE, FALSE)
        EXCEPT !.argsOnly = TRUE]

\* the second loop of CommandParser.parse: one line of the message
parseLine(line, adminSettings, installedServices) ==
    IF line.prefixed
    THEN (IF line.tokens = <<>> THEN <<>>
          ELSE <<parseCommandString(line.tokens, adminSettings)>>)
    ELSE IF isArgsOnlyLine(line.tokens, adminSettings, installedServices)
    THEN <<parseArgsOnlyLine(line.tokens, adminSettings)>>
    ELSE <<>>

RECURSIVE parseLines(_, _, _)
parseLines(lines, adminSettings, installedServices) ==
    IF lines = <<>> THEN <<>>
    ELSE parseLine(Head(lines), adminSettings, installedServices)
         \o parseLines(Tail(lines), adminSettings, installedServices)

\* the first loop of CommandParser.parse: every line in args-only mode
RECURSIVE parseAllArgsOnly(_, _, _)
parseAllArgsOnly(lines, adminSettings, installedServices) ==
    IF lines = <<>> THEN <<>>
    ELSE (IF isArgsOnlyLine(Head(lines).tokens, adminSettings, installedServices)
          THEN <<parseArgsOnlyLine(Head(lines).tokens, adminSettings)>> ELSE <<>>)
         \o parseAllArgsOnly(Tail(lines), adminSettings, installedServices)

\* CommandParser.parse: the commands found, in message order (the empty list
\* for null, a list of one for a single command)
parse(lines, adminSettings, installedServices) ==
    IF lines = <<>> THEN <<>>
    ELSE IF /\ ~lines[1].prefixed
            /\ isArgsOnlyLine(lines[1].tokens, adminSettings, installedServices)
    THEN parseAllArgsOnly(lines, adminSettings, installedServices)
    ELSE parseLines(lines, adminSettings, installedServices)

\* MessageRouter.parseMessage
parseMessage(st, context) ==
    parse(context.body.lines, getChatSettings(st, context.chatId),
          getInstalledServices(st, context.chatId))

\* the definition CommandParser.reparseArgs looks up for a parsed command: a
\* list of the definition, or of none
LoadedDefinition(parsed) ==
    LET scope == IF parsed.type = "service" THEN parsed.service ELSE parsed.type
    IN IF ~hasCommandDefinition(scope, parsed.command) THEN <<>>
       ELSE <<getCommandDefinition(scope, parsed.command)>>

\* CommandParser.reparseArgs, from the definition it looked up on
reparseArgsOf(parsed, syntaxIndex, commandDefs) ==
    IF commandDefs = <<>> THEN parsed.args
    ELSE parseArgumentsByDefinition(tokenizeRaw(parsed.rawArgs),
                                    ParametersOf(commandDefs[1], syntaxIndex))

\* CommandParser.reparseArgs
reparseArgs(parsed, syntaxIndex) ==
    reparseArgsOf(parsed, syntaxIndex, LoadedDefinition(parsed))

(***************************************************************************)
(* Storage manager.  A ServiceInstance's storage maps a storage name to a  *)
(* list of records; a record holds its `_id` (field id) and its data.      *)
(* Each operator yields the document it leaves, whether it found the       *)
(* addressed record, and the record it returns (a list of one record, or   *)
(* of none).                                                               *)
(***************************************************************************)
\* StateManager.getChatData and StorageManager.getStorage:
\* `service?.storage?.get?.(storageName) || []`
getStorage(st, chatId, serviceName, storageName) ==
    IF /\ st.chats[chatId].exists
       /\ st.chats[chatId].services[serviceName].installed
       /\ storageName \in DOMAIN st.chats[chatId].services[serviceName].storage
    THEN st.chats[chatId].services[serviceName].storage[storageName]
    ELSE <<>>

\* a setStorage that writes the list of the service in every chat that has
\* the service
setStorageOfService(st, chatId, serviceName, storageName, data) ==
    LET Written(st1) ==
            [st1 EXCEPT !.chats =
                [c \in Chats |->
                    IF st1.chats[c].exists /\ st1.chats[c].services[serviceName].installed
                    THEN [st1.chats[c] EXCEPT
                             !.services[serviceName].storage = MapSet(@, storageName, data)]
                    ELSE st1.chats[c]]]
    IN Written(installService(st, chatId, serviceName, "group", <<>>, <<>>, <<>>))

\* StateManager.setStorage: the chat is created and the service installed
\* when they are not there
setStorage(st, chatId, serviceName, storageName, data) ==
    [installService(st, chatId, serviceName, "group", <<>>, <<>>, <<>>) EXCEPT
        !.chats[chatId].services[serviceName].storage = MapSet(@, storageName, data)]

\* `storage.findIndex(item => item._id === itemId)`, counted from 1; 0 when
\* no record has the id
FindIndex(storage, itemId) ==
    IF \E i \in DOMAIN storage : storage[i].id = itemId
    THEN CHOOSE i \in DOMAIN storage :
            /\ storage[i].id = itemId
            /\ \A j \in 1..(i - 1) : storage[j].id # itemId
    ELSE 0

\* `storage.splice(index)`: everything from the position on is removed
SpliceToEnd(storage, index) == SubSeq(storage, 1, index - 1)

\* `storage.splice(index, 1)` for a position of the list, counted from 1
Splice(storage, index) ==
    SubSeq(storage, 1, index - 1) \o SubSeq(storage, index + 1, Len(storage))

\* an operation that found nothing to act on
NotFound(st) == [st |-> st, found |-> FALSE, item |-> <<>>]

\* StorageManager.addItem: `{ _id: this.generateId(), ...item }` is pushed;
\* `id` is what generateId yields
addItem(st, chatId, serviceName, storageName, item, id) ==
    LET Added(newItem) ==
            [st |-> setStorage(st, chatId, serviceName, storageName,
                               Append(getStorage(st, chatId, serviceName, storageName),
                                      newItem)),
             found |-> TRUE, item |-> <<newItem>>]
    IN Added([k \in {"id"} \cup DOMAIN item |-> IF k \in DOMAIN item THEN item[k] ELSE id])

\* the common end of updateItem and updateItemByIndex: `{ ...old, ...updates }`
\* at the position
UpdateAt(st, chatId, serviceName, storageName, index, value) ==
    LET Updated(storage) == [storage EXCEPT ![index].value = value]
        Stored(storage) ==
            [st |-> setStorage(st, chatId, serviceName, storageName, storage),
             found |-> TRUE, item |-> <<storage[index]>>]
    IN Stored(Updated(getStorage(st, chatId, serviceName, storageName)))

\* StorageManager.updateItem
updateItem(st, chatId, serviceName, storageName, itemId, value) ==
    LET At(index) == IF index = 0 THEN NotFound(st)
                     ELSE UpdateAt(st, chatId, serviceName, storageName, index, value)
    IN At(FindIndex(getStorage(st, chatId, serviceName, storageName), itemId))

\* StorageManager.updateItemByIndex
updateItemByIndex(st, chatId, serviceName, storageName, index, value) ==
    IF index < 1 \/ index > Len(getStorage(st, chatId, serviceName, storageName))
    THEN NotFound(st)
    ELSE UpdateAt(st, chatId, serviceName, storageName, index, value)

\* the common end of deleteItem and deleteItemByIndex
DeleteAt(st, chatId, serviceName, storageName, index) ==
    [st |-> setStorage(st, chatId, serviceName, storageName,
                       Splice(getStorage(st, chatId, serviceName, storageName), index)),
     found |-> TRUE, item |-> <<>>]

\* StorageManager.deleteItem
deleteItem(st, chatId, serviceName, storageName, itemId) ==
    LET At(index) == IF index = 0 THEN NotFound(st)
                     ELSE DeleteAt(st, chatId, serviceName, storageName, index)
    IN At(FindIndex(getStorage(st, chatId, serviceName, storageName), itemId))

\* StorageManager.deleteItemByIndex
deleteItemByIndex(st, chatId, serviceName, storageName, index) ==
    IF index < 1 \/ index > Len(getStorage(st, chatId, serviceName, storageName))
    THEN NotFound(st)
    ELSE DeleteAt(st, chatId, serviceName, storageName, index)

\* StorageManager.clearStorage
clearStorage(st, chatId, serviceName, storageName) ==
    [st |-> setStorage(st, chatId, serviceName, storageName, <<>>),
     found |-> TRUE, item |-> <<>>]

(***************************************************************************)
(* Session manager.                                                        *)
(***************************************************************************)
\* `id.replace(/\./g, '~')` on the ids the model uses
replaceDots(id) ==
    CASE id = "g1@g.us" -> "g1@g~us"
      [] id = "p1@s.whatsapp.net" -> "p1@s~whatsapp~net"
      [] OTHER -> id

\* SessionManager.getSessionKey: the four parts of the key
getSessionKey(chatId, userId, service, command) ==
    <<replaceDots(chatId), replaceDots(userId),
      IF service = Null THEN "_" ELSE service, command>>

\* the session object createSession builds (startedAt, which nothing reads,
\* is left out)
NewSession(context, parsedCommand, missingArgs, t) ==
    [key |-> getSessionKey(context.chatId, context.userId,
                           parsedCommand.service, parsedCommand.command),
     chatId |-> context.chatId,
     userId |-> context.userId,
     service |-> parsedCommand.service,
     command |-> parsedCommand.command,
     type |-> parsedCommand.type,
     syntaxIndex |-> IF parsedCommand.syntaxIndex = -1 THEN 0
                     ELSE parsedCommand.syntaxIndex,
     collectedArgs |-> parsedCommand.args,
     pendingArgs |-> missingArgs,
     currentArgIndex |-> 0,
     lastActivity |-> t,
     expiresAt |-> t + sessionTimeout]

\* SessionManager.createSession
createSession(st, context, parsedCommand, missingArgs, t) ==
    LET session == NewSession(context, parsedCommand, missingArgs, t)
    IN saveSession(st, session.key, session)

\* an expiry check that lets a session live one timeout longer
ExpiredAfterGrace(session, t) == session.expiresAt + sessionTimeout < t

\* `new Date(session.expiresAt) < new Date()`
Expired(session, t) == session.expiresAt < t

\* the loop of getActiveSession taking the first session of the chat, whoever
\* its user is
RECURSIVE ScanSessionsOfChat(_, _, _, _, _)
ScanSessionsOfChat(st, entries, chatId, userId, t) ==
    IF entries = <<>> THEN [st |-> st, found |-> FALSE]
    ELSE LET session == Head(entries)
         IN IF session.chatId = chatId
            THEN IF Expired(session, t)
                 THEN ScanSessionsOfChat(deleteSession(st, session.key), Tail(entries),
                                         chatId, userId, t)
                 ELSE [st |-> st, found |-> TRUE, session |-> session]
            ELSE ScanSessionsOfChat(st, Tail(entries), chatId, userId, t)

\* the loop of SessionManager.getActiveSession over the snapshot `entries`
\* taken by getSessions: expired sessions of the pair are deleted from the
\* store on the way, the first live one is returned
RECURSIVE ScanSessions(_, _, _, _, _)
ScanSessions(st, entries, chatId, userId, t) ==
    IF entries = <<>> THEN [st |-> st, found |-> FALSE]
    ELSE LET session == Head(entries)
         IN IF session.chatId = chatId /\ session.userId = userId
            THEN IF Expired(session, t)
                 THEN ScanSessions(deleteSession(st, session.key), Tail(entries),
                                   chatId, userId, t)
                 ELSE [st |-> st, found |-> TRUE, session |-> session]
            ELSE ScanSessions(st, Tail(entries), chatId, userId, t)

\* SessionManager.getActiveSession
getActiveSession(st, chatId, userId, t) ==
    ScanSessions(st, st.sessions, chatId, userId, t)

\* the session updateSession stores: one more argument collected
UpdatedSession(session, argName, argValue, t) ==
    [session EXCEPT
        !.collectedArgs = [n \in DOMAIN @ \cup {argName} |->
                              IF n = argName THEN argValue ELSE @[n]],
        !.currentArgIndex = @ + 1,
        !.lastActivity = t,
        !.expiresAt = t + sessionTimeout]

\* SessionManager.updateSession, for a key that is in the store
updateSession(st, key, argName, argValue, t) ==
    saveSession(st, key,
                UpdatedSession(st.sessions[SessionIndex(st, key)], argName, argValue, t))

\* SessionManager.isSessionComplete
isSessionComplete(session) == session.currentArgIndex >= Len(session.pendingArgs)

\* SessionManager.handleResponse, once getActiveSession has returned `session`
\* (and the session is still in the store)
respondToSession(st, session, text, t) ==
    LET trimmedMessage == toLowerCase(text)
        hasCurrentArg == session.currentArgIndex < Len(session.pendingArgs)
        currentArg == session.pendingArgs[session.currentArgIndex + 1]
        argValue == IF trimmedMessage = "skip" THEN Null ELSE text
        Updated(st1, updatedSession) ==
            IF isSessionComplete(updatedSession)
            THEN [st |-> deleteSession(st1, session.key), action |-> "complete",
                  session |-> updatedSession]
            ELSE [st |-> st1,
                  action |-> IF trimmedMessage = "skip" THEN "skipped" ELSE "continue",
                  session |-> updatedSession]
        AfterUpdate(st1) == Updated(st1, st1.sessions[SessionIndex(st1, session.key)])
    IN IF trimmedMessage = "cancel"
       THEN [st |-> deleteSession(st, session.key), action |-> "cancelled",
             session |-> session]
       ELSE IF ~hasCurrentArg
       THEN [st |-> deleteSession(st, session.key), action |-> "complete",
             session |-> session]
       ELSE AfterUpdate(updateSession(st, session.key, currentArg, argValue, t))

\* SessionManager.handleResponse
handleResponse(st, text, context, t) ==
    LET Respond(active) ==
            IF ~active.found THEN [st |-> active.st, action |-> "no_session"]
            ELSE respondToSession(active.st, active.session, text, t)
    IN Respond(getActiveSession(st, context.chatId, context.userId, t))

(***************************************************************************)
(* Permission manager.                                                     *)
(***************************************************************************)
\* `x.includes('*') || x.includes(v)` on a list read as a set
IncludesWildOr(list, v) == Wild \in list \/ v \in list

\* the body of the loop of PermissionManager.checkBlacklist: does `entry`
\* reach `return true`
EntryMatches(entry, userId, chatId, service, command) ==
    /\ entry.userId = userId
    /\ (chatId # Null /\ entry.groups.has) => IncludesWildOr(entry.groups.items, chatId)
    /\ (service # Null /\ entry.services.has) => IncludesWildOr(entry.services.items, service)
    /\ (command # Null /\ entry.commands.has) => IncludesWildOr(entry.commands.items, command)

\* PermissionManager.checkBlacklist
checkBlacklist(blacklist, userId, chatId, service, command) ==
    \E i \in DOMAIN blacklist : EntryMatches(blacklist[i], userId, chatId, service, command)

\* PermissionManager.isGloballyBlacklisted
isGloballyBlacklisted(st, userId, chatId, service, command) ==
    checkBlacklist(getRootBlacklist(st), userId, chatId, service, command)

\* PermissionManager.isGroupBlacklisted
isGroupBlacklisted(st, userId, chatId, service, command) ==
    checkBlacklist(getGroupBlacklist(st, chatId), userId, Null, service, command)

Deny(reason) == [allowed |-> FALSE, reason |-> reason, roles |-> {}, syntaxIndex |-> -1]
Allow == [allowed |-> TRUE, reason |-> "", roles |-> {}, syntaxIndex |-> -1]

\* PermissionManager.checkRootPermission
checkRootPermission(st, userId) ==
    IF ~isRootUser(st, userId) THEN Deny("Root permission required") ELSE Allow

\* an admin check that reads the admin role in private chats too
checkAdminPermissionAnywhere(st, context) ==
    IF isRootUser(st, context.userId) THEN Allow
    ELSE IF userHasAdminRole(st, context.userId, context.chatId) THEN Allow
    ELSE Deny("Admin permission required")

\* PermissionManager.checkAdminPermission
checkAdminPermission(st, context) ==
    IF isRootUser(st, context.userId) THEN Allow
    ELSE IF ~context.isGroup THEN Deny("Admin commands only available in groups")
    ELSE IF userHasAdminRole(st, context.userId, context.chatId) THEN Allow
    ELSE Deny("Admin permission required")

\* role collection that takes every user for a root user
getUserRolesAsRoot(st, userId, chatId, service) ==
    {"root", "admin"} \cup getUserServiceRoles(st, userId, chatId, service)

\* PermissionManager.getUserRoles
getUserRoles(st, userId, chatId, service) ==
    (IF isRootUser(st, userId) THEN {"root", "admin"} ELSE {})
      \cup getUserServiceRoles(st, userId, chatId, service)

\* `syntaxes[i].allowedRoles || ['admin']`
AllowedRolesOf(syntax) ==
    IF syntax.allowedRoles.has THEN syntax.allowedRoles.items ELSE {"admin"}

\* a test that lets the holder of 'admin' pass every syntax
SyntaxMatchesOrAdmin(userRoles, syntax) ==
    \/ Wild \in AllowedRolesOf(syntax)
    \/ \E role \in userRoles : role \in AllowedRolesOf(syntax) \cup {"admin"}

\* the test of the loop of getBestMatchingSyntax on one syntax
SyntaxMatches(userRoles, syntax) ==
    \/ Wild \in AllowedRolesOf(syntax)
    \/ \E role \in userRoles : role \in AllowedRolesOf(syntax)

\* the loop of getBestMatchingSyntax from syntax i (counted from 1) on: the JS
\* index of the first syntax that passes the test, -1 when the loop runs out
RECURSIVE FirstMatch(_, _, _)
FirstMatch(userRoles, syntaxes, i) ==
    IF i > Len(syntaxes) THEN -1
    ELSE IF SyntaxMatches(userRoles, syntaxes[i]) THEN i - 1
    ELSE FirstMatch(userRoles, syntaxes, i + 1)

\* `commandDef.syntaxes || [{ allowedRoles: ['admin'], parameters: ... }]`
MatchableSyntaxes(commandDef) ==
    IF commandDef.hasSyntaxes THEN commandDef.syntaxes
    ELSE <<Syn(Some({"admin"}), <<>>)>>

\* PermissionManager.getBestMatchingSyntax: the JS index of the match, -1 for null
getBestMatchingSyntax(userRoles, commandDef) ==
    FirstMatch(userRoles, MatchableSyntaxes(commandDef), 1)

\* PermissionManager.checkServicePermission
checkServicePermission(st, context, parsedCommand) ==
    LET service == parsedCommand.service
        command == parsedCommand.command
    IN IF ~isServiceInstalled(st, context.chatId, service)
       THEN Deny("Service is not installed in this chat")
       ELSE IF LET serviceSettings == getServiceSettings(st, context.chatId, service)
               IN /\ "isEnabled" \in DOMAIN serviceSettings
                  /\ serviceSettings.isEnabled = FALSE
       THEN Deny("Service is disabled")
       ELSE IF ~context.isGroup /\ ~(hasService(service) /\ getService(service).allowInPrivateChat)
       THEN Deny("Service is only available in groups")
       ELSE IF ~(hasService(service) /\ command \in DOMAIN getService(service).commands)
       THEN Deny("Unknown command")
       ELSE LET Matched(userRoles, index) ==
                    IF index = -1
                    THEN Deny("You do not have permission to use this command")
                    ELSE [allowed |-> TRUE, reason |-> "", roles |-> userRoles,
                          syntaxIndex |-> index]
                WithRoles(userRoles) ==
                    Matched(userRoles,
                            getBestMatchingSyntax(userRoles,
                                                  getService(service).commands[command]))
            IN WithRoles(getUserRoles(st, context.userId, context.chatId, service))

\* `chatSettings?.adminSettings?.isEnabled === false` in canExecute, where
\* chatSettings is what getChatSettings returned
ChatDisabledCheck(chatSettings) ==
    /\ chatSettings.has
    /\ "adminSettings" \in DOMAIN chatSettings.items
    /\ "isEnabled" \in DOMAIN chatSettings.items.adminSettings
    /\ chatSettings.items.adminSettings.isEnabled = FALSE

\* a permission check that asks the rule of the command type first and the
\* blacklists only for a command the rule denies
canExecuteByTypeFirst(st, context, parsedCommand) ==
    LET userId == context.userId
        chatId == context.chatId
        type == parsedCommand.type
        service == parsedCommand.service
        command == parsedCommand.command
        ByType == CASE type = "builtin" -> Allow
                    [] type = "root" -> checkRootPermission(st, userId)
                    [] type = "admin" -> checkAdminPermission(st, context)
                    [] type = "service" -> checkServicePermission(st, context, parsedCommand)
                    [] OTHER -> Deny("Unknown command type")
    IN IF ~st.rootSettings.isEnabled THEN Deny("Bot is disabled globally")
       ELSE IF ByType.allowed THEN ByType
       ELSE IF isGloballyBlacklisted(st, userId, chatId, service, command)
       THEN Deny("You are blacklisted from this command")
       ELSE IF isGroupBlacklisted(st, userId, chatId, service, command)
       THEN Deny("You are blacklisted from this command in this group")
       ELSE ByType

\* PermissionManager.canExecute
canExecute(st, context, parsedCommand) ==
    LET userId == context.userId
        chatId == context.chatId
        type == parsedCommand.type
        service == parsedCommand.service
        command == parsedCommand.command
    IN IF ~st.rootSettings.isEnabled THEN Deny("Bot is disabled globally")
       ELSE IF isGloballyBlacklisted(st, userId, chatId, service, command)
       THEN Deny("You are blacklisted from this command")
       ELSE IF /\ context.isGroup \/ chatId # Null
               /\ ChatDisabledCheck(getChatSettings(st, chatId))
       THEN Deny("Bot is disabled in this chat")
       ELSE IF /\ context.isGroup \/ chatId # Null
               /\ isGroupBlacklisted(st, userId, chatId, service, command)
       THEN Deny("You are blacklisted from this command in this group")
       ELSE CASE type = "builtin" -> Allow
              [] type = "root" -> checkRootPermission(st, userId)
              [] type = "admin" -> checkAdminPermission(st, context)
              [] type = "service" -> checkServicePermission(st, context, parsedCommand)
              [] OTHER -> Deny("Unknown command type")

(***************************************************************************)
(* Handlers.  A handler call yields the document it leaves and what it     *)
(* returns, as formatResponse tells the cases apart: "text" (a string or   *)
(* an object with text), "error" (an object with error) or "absent" (null  *)
(* or undefined), or it throws ("throw").  The root, admin and builtin    *)
(* handlers return a string on every path.  A service's handler module is whatever is registered for   *)
(* the service (HANDLER_REGISTRY, ServiceLoader.registerHandler), so the   *)
(* result of a service handler is drawn from these cases by `env`, which   *)
(* also holds the gateway's participant list; the further case "code" of   *)
(* `env` is the handler of services/exp/handler.js running as written.     *)
(***************************************************************************)
\* the handler modules and the functions they export
Handlers ==
    [builtin |-> {"ping"},
     admin |-> {"addBlacklist"},
     root |-> {"addRoot", "removeRoot", "installService", "removeService",
               "addBlacklist"},
     exp |-> {"add", "edit", "remove", "list"},
     chatbot |-> {"sendMessage", "clearHistory"}]

\* ServiceLoader.getHandlerFunction: is there a handler
hasHandlerFunction(scope, commandName) ==
    scope \in DOMAIN Handlers /\ commandName \in Handlers[scope]

\* `args[name]`, Null when undefined or null
Arg(args, name) == IF name \in DOMAIN args THEN args[name] ELSE Null

\* `list || ['*']` for an optional argument
OrWild(value) == IF value = Null THEN Some({Wild}) ELSE Some({value})

\* root handler addRoot
rootAddRoot(st, ctx) ==
    LET userId == Arg(ctx.args, "userId")
    IN IF userId = Null \/ isRootUser(st, userId) THEN st
       ELSE addRootUser(st, userId)

\* root handler removeRoot
rootRemoveRoot(st, ctx) ==
    LET userId == Arg(ctx.args, "userId")
    IN IF userId = Null \/ userId = ctx.userId \/ ~isRootUser(st, userId) THEN st
       ELSE removeRootUser(st, userId)

\* root handler installService; a chat id outside the model's chats is a chat
\* no message of the model comes from, and its record is not kept
rootInstallService(st, ctx, env) ==
    LET chatId == Arg(ctx.args, "chatId")
        service == Arg(ctx.args, "service")
        chatType == IF chatId \in GroupChats THEN "group" ELSE "private"
    IN IF chatId = Null \/ service = Null \/ ~hasService(service) THEN st
       ELSE IF chatType = "private" /\ ~getService(service).allowInPrivateChat THEN st
       ELSE IF chatId \notin Chats THEN st
       ELSE IF isServiceInstalled(st, chatId, service) THEN st
       ELSE IF chatType = "group" /\ env.participants.success
       THEN installService(st, chatId, service, chatType, env.participants.admins,
                           env.participants.members, getService(service).roles)
       ELSE installService(st, chatId, service, chatType, <<>>, <<>>,
                           getService(service).roles)

\* root handler removeService
rootRemoveService(st, ctx) ==
    LET chatId == Arg(ctx.args, "chatId")
        service == Arg(ctx.args, "service")
    IN IF chatId = Null \/ service = Null THEN st
       ELSE IF chatId \notin Chats \/ service \notin Services THEN st
       ELSE IF ~isServiceInstalled(st, chatId, service) THEN st
       ELSE removeService(st, chatId, service)

\* root handler addBlacklist
rootAddBlacklist(st, ctx) ==
    LET userId == Arg(ctx.args, "userId")
    IN IF userId = Null THEN st
       ELSE addToRootBlacklist(st, [userId |-> userId,
                                    groups |-> OrWild(Arg(ctx.args, "groups")),
                                    services |-> OrWild(Arg(ctx.args, "services")),
                                    commands |-> OrWild(Arg(ctx.args, "commands"))])

\* admin handler addBlacklist
adminAddBlacklist(st, ctx) ==
    LET userId == Arg(ctx.args, "userId")
    IN IF userId = Null THEN st
       ELSE addToGroupBlacklist(st, ctx.chatId,
                                [userId |-> userId,
                                 groups |-> Absent,
                                 services |-> OrWild(Arg(ctx.args, "services")),
                                 commands |-> OrWild(Arg(ctx.args, "commands"))])

\* StateManager.getUsersWithRole
getUsersWithRole(st, chatId, serviceName, role) ==
    IF isServiceInstalled(st, chatId, serviceName)
       /\ role \in DOMAIN st.chats[chatId].services[serviceName].roles
    THEN st.chats[chatId].services[serviceName].roles[role]
    ELSE <<>>

\* the number an argument token compares as (`childNo < 1`)
NumberOf(token) ==
    CASE token = "5" -> 5
      [] token = "1" -> 1
      [] OTHER -> 0

\* handler `add` of the expense service (services/exp/handler.js), with the
\* scoped helpers of executeCommand, which pass the chat of the context and
\* the service of the command to the managers; the record's `_id` is what
\* the storage manager's generateId yields
expAdd(st, ctx, env) ==
    LET amount == Arg(ctx.args, "amount")
        item == Arg(ctx.args, "item")
        childNo == Arg(ctx.args, "childNo")
        children == getUsersWithRole(st, ctx.chatId, ctx.service, "child")
        Add(targetUserId) ==
            addItem(st, ctx.chatId, ctx.service, "expenses",
                    [value |-> item, amount |-> amount, addedBy |-> targetUserId],
                    env.itemId).st
    IN IF amount = Null \/ item = Null THEN st
       ELSE IF "parent" \in ctx.userRoles /\ childNo # Null
       THEN (IF NumberOf(childNo) < 1 \/ NumberOf(childNo) > Len(children) THEN st
             ELSE Add(children[NumberOf(childNo)]))
       ELSE Add(ctx.userId)

\* `await handler(execContext)`: the handler of the scope and command runs;
\* for the result "code" of a service handler the handler shipped with the
\* service runs
handler(st, scope, command, ctx, env) ==
    CASE scope = "root" /\ command = "addRoot" ->
            [st |-> rootAddRoot(st, ctx), result |-> "text"]
      [] scope = "root" /\ command = "removeRoot" ->
            [st |-> rootRemoveRoot(st, ctx), result |-> "text"]
      [] scope = "root" /\ command = "installService" ->
            [st |-> rootInstallService(st, ctx, env), result |-> "text"]
      [] scope = "root" /\ command = "removeService" ->
            [st |-> rootRemoveService(st, ctx), result |-> "text"]
      [] scope = "root" /\ command = "addBlacklist" ->
            [st |-> rootAddBlacklist(st, ctx), result |-> "text"]
      [] scope = "admin" /\ command = "addBlacklist" ->
            [st |-> adminAddBlacklist(st, ctx), result |-> "text"]
      [] scope = "builtin" -> [st |-> st, result |-> "text"]
      [] scope = "exp" /\ command = "add" /\ env.result = "code" ->
            [st |-> expAdd(st, ctx, env), result |-> "text"]
      [] OTHER -> [st |-> st, result |-> env.result]

(***************************************************************************)
(* Message router.  Each operator yields a run: the document it leaves,    *)
(* the calls of executeCommand made, the reply, and the status of each     *)
(* audit record written (StateManager.logAudit), in order.                 *)
(***************************************************************************)
\* MessageRouter.buildContext: the fields the framework reads
buildContext(message) ==
    [userId |-> message.from, chatId |-> message.chat_id, body |-> message.body,
     isGroup |-> message.chat_id \in GroupChats, userRoles |-> {}]

\* executeCommand taking every command for one given without arguments
noArgsAssumed(parsed) == TRUE

\* a run that executed no command
Run(st, reply) == [st |-> st, executed |-> <<>>, reply |-> reply, audit |-> <<>>]

\* does the syntax with JS index syntaxIndex have a required parameter (not
\* optional, no default) that `args` leaves undefined
RequiredUnbound(scope, command, args, syntaxIndex) ==
    /\ hasCommandDefinition(scope, command)
    /\ LET syntaxes == SyntaxesOf(getCommandDefinition(scope, command))
       IN /\ syntaxIndex + 1 \in DOMAIN syntaxes
          /\ \E i \in DOMAIN syntaxes[syntaxIndex + 1].parameters :
                LET param == syntaxes[syntaxIndex + 1].parameters[i]
                IN ~param.optional /\ ~param.hasDefault /\ param.name \notin DOMAIN args

\* the record of one call of executeCommand: the command as it arrives, what
\* canExecute answers for the caller in the state the call starts in
\* (`authorized`), and what the call does: "session", "handler" or "no_handler"
Execution(st, context, parsed, viaSession, outcome) ==
    [userId |-> context.userId, chatId |-> context.chatId, type |-> parsed.type,
     service |-> parsed.service, command |-> parsed.command,
     args |-> parsed.args,
     viaSession |-> viaSession,
     interactive |-> parsed.interactive,
     rawEmpty |-> ~parsed.hasRawArgs \/ parsed.rawArgs = <<>>,
     rawBlank |-> \/ ~parsed.hasRawArgs
                  \/ \A i \in DOMAIN parsed.rawArgs : parsed.rawArgs[i] \in BlankTokens,
     unbound |-> RequiredUnbound(IF parsed.type = "service" THEN parsed.service
                                 ELSE parsed.type,
                                 parsed.command, parsed.args,
                                 IF parsed.syntaxIndex = -1 THEN 0 ELSE parsed.syntaxIndex),
     authorized |-> canExecute(st, context, parsed).allowed,
     outcome |-> outcome]

\* MessageRouter.formatResponse: the reply for a handler result
formatResponse(result) ==
    CASE result = "absent" -> "none"
      [] result = "error" -> "error"
      [] OTHER -> "text"

\* `!parsed.rawArgs || parsed.rawArgs.trim() === ''` in executeCommand
noArgsProvided(parsed) == ~parsed.hasRawArgs \/ IsBlank(parsed.rawArgs)

\* MessageRouter.executeCommand; a run whose reply is "threw" is a call the
\* handler's exception ended: the promise rejects with the exception
executeCommand(st, context, parsed, t, env, viaSession) ==
    LET scope == IF parsed.type = "service" THEN parsed.service ELSE parsed.type
        syntaxIndex == IF parsed.syntaxIndex = -1 THEN 0 ELSE parsed.syntaxIndex
        Called(call) ==
            [st |-> call.st,
             executed |-> <<Execution(st, context, parsed, viaSession, "handler")>>,
             reply |-> IF call.result = "throw" THEN "threw"
                       ELSE formatResponse(call.result),
             audit |-> <<>>]
        Execute(missingArgs) ==
            IF missingArgs # <<>>
            THEN [st |-> createSession(st, context, parsed, missingArgs, t),
                  executed |-> <<Execution(st, context, parsed, viaSession, "session")>>,
                  reply |-> "prompt", audit |-> <<>>]
            ELSE IF ~hasHandlerFunction(scope, parsed.command)
            THEN [st |-> st,
                  executed |-> <<Execution(st, context, parsed, viaSession, "no_handler")>>,
                  reply |-> "error", audit |-> <<>>]
            ELSE Called(handler(st, scope, parsed.command,
                                [userId |-> context.userId, chatId |-> context.chatId,
                                 service |-> parsed.service,
                                 userRoles |-> context.userRoles,
                                 args |-> parsed.args], env))
    IN Execute(IF /\ parsed.interactive
                  /\ noArgsProvided(parsed)
                  /\ hasCommandDefinition(scope, parsed.command)
               THEN getMissingArgs(parsed.args,
                                   getCommandDefinition(scope, parsed.command), syntaxIndex)
               ELSE <<>>)

\* what the outside world answers to the k-th command of a message
EnvAt(env, k) ==
    [result |-> env.results[k], participants |-> env.participants, itemId |-> env.itemId]

\* what the outside world answers to the command of a completed session
EnvOfCompletion(env) ==
    [result |-> env.completion, participants |-> env.participants, itemId |-> env.itemId]

\* the command as executeSingleCommand / executeMultipleCommands hand it to
\* executeCommand: syntaxIndex taken from the permission, the arguments
\* parsed again when the syntax is not the first and raw arguments exist
WithSyntaxOf(parsed, permission, commandDefs) ==
    IF permission.syntaxIndex = -1 THEN parsed
    ELSE IF parsed.hasRawArgs /\ parsed.rawArgs # <<>> /\ permission.syntaxIndex > 0
    THEN [parsed EXCEPT !.syntaxIndex = permission.syntaxIndex,
                        !.args = reparseArgsOf(parsed, permission.syntaxIndex,
                                               commandDefs)]
    ELSE [parsed EXCEPT !.syntaxIndex = permission.syntaxIndex]

\* the same for the definition the service loader holds for the command
WithSyntax(parsed, permission) ==
    WithSyntaxOf(parsed, permission, LoadedDefinition(parsed))

\* a permission test that denies nothing
neverDenied(permission) == FALSE

\* `!permission.allowed` in executeSingleCommand and executeMultipleCommands
notAllowed(permission) == ~permission.allowed

\* MessageRouter.executeSingleCommand
executeSingleCommand(st, context, parsed, t, env) ==
    IF parsed.error # Null
    THEN LET adminSettings == getChatSettings(st, context.chatId)
         IN IF (adminSettings.has /\ adminSettings.items.replyOnParsingError)
               \/ ~parsed.argsOnly
            THEN Run(st, "error") ELSE Run(st, "none")
    ELSE LET Logged(run) == IF run.reply = "threw" THEN run
                            ELSE [run EXCEPT !.audit = Append(@, "success")]
             Permitted(permission) ==
                 IF notAllowed(permission) THEN Run(st, "denied")
                 ELSE Logged(executeCommand(st,
                                            [context EXCEPT !.userRoles = permission.roles],
                                            WithSyntax(parsed, permission),
                                            t, EnvAt(env, 1), FALSE))
         IN Permitted(canExecute(st, context, parsed))

\* wouldTriggerInteractive counting no command
wouldNeverTriggerInteractive(parsed) == FALSE

\* MessageRouter.wouldTriggerInteractive
wouldTriggerInteractive(parsed) ==
    LET scope == IF parsed.type = "service" THEN parsed.service ELSE parsed.type
    IN /\ parsed.error = Null
       /\ parsed.interactive
       /\ ~(parsed.hasRawArgs /\ ~IsBlank(parsed.rawArgs))
       /\ hasCommandDefinition(scope, parsed.command)
       /\ LET syntaxes == SyntaxesOf(getCommandDefinition(scope, parsed.command))
          IN \E i \in DOMAIN syntaxes : \E j \in DOMAIN syntaxes[i].parameters :
                /\ ~syntaxes[i].parameters[j].optional
                /\ ~syntaxes[i].parameters[j].hasDefault

\* a push that puts the response before the others
UnshiftResponse(responses, response) == <<response>> \o responses

\* `responses.push(...)`
PushResponse(responses, response) == Append(responses, response)

\* the loop of MessageRouter.executeMultipleCommands from command k on; `acc`
\* is the run so far with the responses pushed so far; a response holds the
\* number of the command whose text or error it carries (`index`)
RECURSIVE executeEach(_, _, _, _, _, _)
executeEach(acc, context, parsedCommands, k, t, env) ==
    IF k > Len(parsedCommands) THEN acc
    ELSE LET parsed == parsedCommands[k]
             alreadyProcessed ==
                 \E i \in DOMAIN acc.responses :
                    acc.responses[i].service = parsed.service /\ acc.responses[i].processed
             failed == [error |-> TRUE, service |-> parsed.service, processed |-> FALSE,
                        thrown |-> FALSE, index |-> k]
             Executed(run) ==
                 [st |-> run.st,
                  executed |-> acc.executed \o run.executed,
                  responses |->
                     IF run.reply = "none" THEN acc.responses
                     ELSE IF run.reply = "threw"
                     THEN PushResponse(acc.responses, [failed EXCEPT !.thrown = TRUE])
                     ELSE PushResponse(acc.responses,
                                       [error |-> FALSE, service |-> parsed.service,
                                        processed |-> TRUE, thrown |-> FALSE,
                                        index |-> k])]
             Permitted(permission) ==
                 IF notAllowed(permission)
                 THEN [acc EXCEPT !.responses = PushResponse(@, failed)]
                 ELSE Executed(executeCommand(acc.st,
                                              [context EXCEPT
                                                  !.userRoles = permission.roles],
                                              WithSyntax(parsed, permission), t,
                                              EnvAt(env, k), FALSE))
         IN executeEach(IF parsed.oneCmdPerMsg /\ alreadyProcessed THEN acc
                        ELSE IF parsed.error # Null
                        THEN [acc EXCEPT !.responses = PushResponse(@, failed)]
                        ELSE Permitted(canExecute(acc.st, context, parsed)),
                        context, parsedCommands, k + 1, t, env)

\* the combined text of executeMultipleCommands for several responses: the
\* texts and errors in the order of the responses, a newline between two;
\* each is given by the number of its command
combinedText(responses) == [i \in DOMAIN responses |-> responses[i].index]

\* MessageRouter.executeMultipleCommands; the reply is "message" when it is
\* the message of an exception a handler threw, "text_with_message" when it
\* is several responses joined and one of them is such a message
executeMultipleCommands(st, context, parsedCommands, t, env) ==
    LET interactiveCount ==
            Cardinality({k \in DOMAIN parsedCommands :
                            wouldTriggerInteractive(parsedCommands[k])})
        Combined(done) ==
            [st |-> done.st, executed |-> done.executed,
             reply |-> IF done.responses = <<>> THEN "none"
                       ELSE IF Len(done.responses) = 1
                       THEN (IF done.responses[1].thrown THEN "message"
                             ELSE IF done.responses[1].error THEN "error" ELSE "text")
                       ELSE IF \E i \in DOMAIN done.responses : done.responses[i].thrown
                       THEN "text_with_message"
                       ELSE "text",
             audit |-> <<>>]
    IN IF interactiveCount > 1 THEN Run(st, "error")
       ELSE Combined(executeEach([st |-> st, executed |-> <<>>, responses |-> <<>>],
                                 context, parsedCommands, 1, t, env))

\* the command handleSessionResponse rebuilds from a completed session: no raw
\* arguments and no interactive flag
SessionCommand(session) ==
    [type |-> session.type, service |-> session.service, command |-> session.command,
     args |-> session.collectedArgs, hasRawArgs |-> FALSE, rawArgs |-> <<>>,
     interactive |-> TRUE, oneCmdPerMsg |-> FALSE, argsOnly |-> FALSE,
     syntaxIndex |-> session.syntaxIndex, error |-> Null]

\* MessageRouter.buildExecContext: the roles it collects for the user
buildExecContextRoles(st, context, session) ==
    (IF isRootUser(st, context.userId) THEN {"root", "admin"} ELSE {})
      \cup (IF session.service = Null THEN {}
            ELSE getUserServiceRoles(st, context.userId, context.chatId, session.service))

\* MessageRouter.handleSessionResponse, once handleResponse has answered
completeSessionResponse(response, context, t, env) ==
    CASE response.action = "no_session" -> Run(response.st, "none")
      [] response.action = "cancelled" -> Run(response.st, "text")
      [] response.action \in {"skipped", "continue"} -> Run(response.st, "prompt")
      [] response.action = "complete" ->
            executeCommand(response.st,
                           [context EXCEPT !.userRoles =
                               buildExecContextRoles(response.st, context,
                                                     response.session)],
                           SessionCommand(response.session), t,
                           EnvOfCompletion(env), TRUE)

\* MessageRouter.handleSessionResponse
handleSessionResponse(st, context, t, env) ==
    completeSessionResponse(handleResponse(st, context.body.text, context, t),
                            context, t, env)

\* the part of MessageRouter.route after the session check returned nothing
routeParsed(st, context, t, env) ==
    LET Dispatch(parsed) ==
            IF parsed = <<>> THEN Run(st, "none")
            ELSE IF Len(parsed) > 1
            THEN executeMultipleCommands(st, context, parsed, t, env)
            ELSE executeSingleCommand(st, context, parsed[1], t, env)
    IN Dispatch(parseMessage(st, context))

\* MessageRouter.route from the answer of handleResponse on: the run, with
\* what the session check answered, whether the body went on to the command
\* parser and how many commands that found; the pending audit record was
\* written before handleResponse was called.  The session check is awaited
\* inside route's try, so an exception of a completed session's handler
\* reaches the catch ("generic": the fixed text, with an error audit record);
\* the promises of executeSingleCommand and executeMultipleCommands are
\* returned without await, so an exception in them is not caught here and
\* route rejects ("threw": the webhook answers 500 and nothing is sent)
routeResponded(context, response, t, env) ==
    LET Parsed(sessionResult, rest) ==
            [st |-> rest.st, executed |-> sessionResult.executed \o rest.executed,
             reply |-> rest.reply, action |-> response.action, parsed |-> TRUE,
             commands |-> Len(parseMessage(sessionResult.st, context)),
             audit |-> <<"pending">> \o sessionResult.audit \o rest.audit]
        Checked(sessionResult) ==
            IF sessionResult.reply = "threw"
            THEN [st |-> sessionResult.st, executed |-> sessionResult.executed,
                  reply |-> "generic", action |-> response.action,
                  parsed |-> FALSE, commands |-> 0,
                  audit |-> <<"pending">> \o sessionResult.audit \o <<"error">>]
            ELSE IF sessionResult.reply # "none"
            THEN [st |-> sessionResult.st, executed |-> sessionResult.executed,
                  reply |-> sessionResult.reply, action |-> response.action,
                  parsed |-> FALSE, commands |-> 0,
                  audit |-> <<"pending">> \o sessionResult.audit]
            ELSE Parsed(sessionResult, routeParsed(sessionResult.st, context, t, env))
    IN Checked(completeSessionResponse(response, context, t, env))

\* MessageRouter.route, run with no other message in between
route(st, message, t, env) ==
    LET context == buildContext(message)
    IN routeResponded(context, handleResponse(st, context.body.text, context, t), t, env)

(***************************************************************************)
(* Inbound messages.                                                       *)
(***************************************************************************)
Line(prefixed, tokens) == [prefixed |-> prefixed, tokens |-> tokens]

\* a message body: its trimmed text, and its lines as the parser cuts them
Body(text, lines) == [text |-> text, lines |-> lines]

Command(text, tokens) == Body(text, <<Line(TRUE, tokens)>>)
Plain(text) == Body(text, <<Line(FALSE, <<text>>)>>)

\* what a handler call may end in: a result, as formatResponse tells the
\* cases apart, or an exception
HandlerResults == {"text", "error", "absent", "throw"}

\* answers of the gateway to getGroupParticipants
NoParticipants == [success |-> FALSE, admins |-> <<>>, members |-> <<>>]
GroupParticipants == [success |-> TRUE, admins |-> <<"u1">>, members |-> <<"u2">>]

\* the outside world answering every handler call of a message with `result`
Env(result, participants) ==
    [results |-> [k \in 1..MaxCommands |-> result], completion |-> result,
     participants |-> participants, itemId |-> "i1"]

\* is there a session of the pair that has not expired at time t
HasLiveSession(st, chatId, userId, t) ==
    \E i \in DOMAIN st.sessions :
       /\ st.sessions[i].chatId = chatId
       /\ st.sessions[i].userId = userId
       /\ ~Expired(st.sessions[i], t)

NoObservation ==
    [op |-> "none", userId |-> Null, chatId |-> Null, text |-> Null,
     body |-> Null, env |-> Null, ahead |-> 0, audit |-> <<>>,
     hadSession |-> FALSE, hadExpired |-> FALSE, action |-> "no_session",
     parsed |-> FALSE,
     commands |-> 0, executed |-> <<>>, reply |-> "none"]

\* the document stays within the model's bounds
WithinBounds(st) ==
    /\ st.rootUsers \subseteq Users
    /\ Len(st.rootSettings.blackList) <= MaxBlacklist
    /\ \A i \in DOMAIN st.rootSettings.blackList :
          st.rootSettings.blackList[i].userId \in Users
    /\ \A c \in Chats : st.chats[c].exists =>
          /\ Len(st.chats[c].adminSettings.blackList) <= MaxBlacklist
          /\ \A i \in DOMAIN st.chats[c].adminSettings.blackList :
                st.chats[c].adminSettings.blackList[i].userId \in Users
    /\ Len(st.sessions) <= MaxSessions
    /\ \A c \in Chats, s \in Services :
          (st.chats[c].exists /\ st.chats[c].services[s].installed) =>
             \A n \in DOMAIN st.chats[c].services[s].storage :
                Len(st.chats[c].services[s].storage[n]) <= MaxItems

(***************************************************************************)
(* Sequential specification: messages are routed one at a time.  The root  *)
(* user u1 manages the bot, the group member u2 uses the expense service.  *)
(***************************************************************************)
RootBodies ==
    {Command(".root installService g1@g.us exp",
             <<"root", "installService", "g1@g.us", "exp">>),
     Command(".root addBlacklist u2", <<"root", "addBlacklist", "u2">>)}

UserBodies ==
    {Command(".ping", <<"ping">>),
     Command(".exp add", <<"exp", "add">>),
     Command(".exp add 5", <<"exp", "add", "5">>),
     Command(".exp add \" \"", <<"exp", "add", " ">>),
     Command(".exp remove", <<"exp", "remove">>),
     Plain("cancel"), Plain("skip"),
     Body(".exp list\n.exp add 5",
          <<Line(TRUE, <<"exp", "list">>), Line(TRUE, <<"exp", "add", "5">>)>>)}

Init ==
    /\ state = InitialState
    /\ now = 0
    /\ inflight = <<>>
    /\ last = NoObservation

\* Bot.handleWebhook -> MessageRouter.route, run to its end
Route(userId, chatId, body, env) ==
    \E run \in {route(state, [from |-> userId, chat_id |-> chatId, body |-> body],
                     now, env)} :
       /\ WithinBounds(run.st)
       /\ state' = run.st
       /\ last' = [op |-> "route", userId |-> userId, chatId |-> chatId,
                   text |-> body.text, body |-> body, env |-> env, ahead |-> 0,
                   hadSession |-> HasLiveSession(state, chatId, userId, now),
                   hadExpired |-> \E i \in DOMAIN state.sessions :
                                     /\ state.sessions[i].chatId = chatId
                                     /\ state.sessions[i].userId = userId
                                     /\ state.sessions[i].expiresAt < now,
                   action |-> run.action, parsed |-> run.parsed,
                   commands |-> run.commands, executed |-> run.executed,
                   reply |-> run.reply, audit |-> run.audit]
       /\ UNCHANGED <<now, inflight>>

\* time passes
Tick ==
    /\ now < MaxTime
    /\ now' = now + 1
    /\ last' = NoObservation
    /\ UNCHANGED <<state, inflight>>

\* the root user sends a management command
RootMessage ==
    \E body \in RootBodies, participants \in {NoParticipants, GroupParticipants} :
       Route("u1", "g1@g.us", body, Env("text", participants))

\* the group member sends a message
UserMessage ==
    \E body \in UserBodies, result \in HandlerResults :
       Route("u2", "g1@g.us", body, Env(result, GroupParticipants))

Next == RootMessage \/ UserMessage \/ Tick

Spec == Init /\ [][Next]_vars

(***************************************************************************)
(* Properties of the sequential specification.                             *)
(***************************************************************************)
\* C1: when a live session of the sender exists as a message is routed, the
\* session manager consumes the body (cancel, skip or argument value) and
\* the body is not parsed into commands, whatever the session's outcome.
C1_SessionConsumesMessage ==
    (last.op = "route" /\ last.hadSession) =>
        /\ last.action \in {"cancelled", "skipped", "continue", "complete"}
        /\ ~last.parsed
        /\ last.commands = 0

\* C3: every handler call is one canExecute allows for the caller and the
\* command in the state the call starts in: direct, in a multi-command
\* message, and on completion of a session.
C3_HandlerOnlyIfAllowed ==
    \A i \in DOMAIN last.executed :
        last.executed[i].outcome = "handler" => last.executed[i].authorized

SessionsOf(st, chatId, userId) ==
    {st.sessions[i] : i \in {j \in DOMAIN st.sessions :
                                /\ st.sessions[j].chatId = chatId
                                /\ st.sessions[j].userId = userId}}

\* what a message does to the session `s` that was live for its sender when
\* it arrived, as C11 states it
SessionStepAsStated(s) ==
    LET after == SessionsOf(state', last'.chatId, last'.userId)
        n == Len(s.pendingArgs)
        currentArg == s.pendingArgs[s.currentArgIndex + 1]
    IN IF toLowerCase(last'.text) = "cancel"
       THEN /\ after = {}
            /\ last'.executed = <<>>
            /\ last'.action = "cancelled"
            /\ last'.reply = "text"
       ELSE IF s.currentArgIndex + 1 < n
       THEN /\ last'.executed = <<>>
            /\ \E u \in after :
                  /\ after = {u}
                  /\ u.key = s.key
                  /\ u.pendingArgs = s.pendingArgs
                  /\ u.currentArgIndex = s.currentArgIndex + 1
                  /\ currentArg \in DOMAIN u.collectedArgs
       ELSE /\ after = {}
            /\ last'.executed # <<>>
            /\ LET e == last'.executed[1]
               IN /\ e.viaSession
                  /\ e.outcome = "handler"
                  /\ e.service = s.service /\ e.command = s.command
                  /\ \A k \in DOMAIN s.pendingArgs : s.pendingArgs[k] \in DOMAIN e.args

ParameterOf(session, name) ==
    LET parameters ==
            ParametersOf(getCommandDefinition(IF session.type = "service"
                                              THEN session.service ELSE session.type,
                                              session.command),
                         session.syntaxIndex)
    IN parameters[CHOOSE i \in DOMAIN parameters : parameters[i].name = name]

\* C12: the input skip moves a session past its current argument, storing
\* null for it, only if the definition of that argument's parameter is
\* optional.
C12_SkipOnlyOptional ==
    [][(last'.op = "route" /\ toLowerCase(last'.text) = "skip") =>
          \A s \in SessionsOf(state, last'.chatId, last'.userId) :
              (/\ ~Expired(s, now)
               /\ s.currentArgIndex < Len(s.pendingArgs)
               /\ last'.action \in {"skipped", "complete"})
              => ParameterOf(s, s.pendingArgs[s.currentArgIndex + 1]).optional]_vars

\* the routing of the message just routed, had it met the document `st`
Rerouted(st) ==
    route(st, [from |-> last'.userId, chat_id |-> last'.chatId, body |-> last'.body],
          now, last'.env)

\* C13: a session whose expiresAt is earlier than the arrival time of the
\* next message of its pair is deleted with no reply about it, and the
\* message is processed as if the session had not existed; an accepted input
\* sets expiresAt to the input time plus the timeout, so no input is applied
\* to a session later than one timeout after the session's last activity.
C13_ExpiryOnNextMessage ==
    [][last'.op = "route" =>
          \A s \in SessionsOf(state, last'.chatId, last'.userId) :
              IF s.expiresAt < now
              THEN /\ s \notin SessionsOf(state', s.chatId, s.userId)
                   /\ last'.action = "no_session"
                   /\ LET Same(run) == /\ state' = run.st
                                       /\ last'.reply = run.reply
                                       /\ last'.executed = run.executed
                                       /\ last'.parsed = run.parsed
                                       /\ last'.audit = run.audit
                      IN Same(Rerouted(deleteSession(state, s.key)))
              ELSE /\ last'.action # "no_session"
                   /\ now <= s.lastActivity + sessionTimeout
                   /\ last'.action \in {"skipped", "continue"} =>
                         \E u \in SessionsOf(state', s.chatId, s.userId) :
                            /\ u.key = s.key
                            /\ u.lastActivity = now
                            /\ u.expiresAt = now + sessionTimeout]_vars

\* C13 witness: a message that found an expired session of its sender has
\* been routed: the session is gone and the message was parsed into a command
\* that ran
C13_Witness ==
    /\ last.op = "route"
    /\ last.hadExpired
    /\ last.action = "no_session"
    /\ last.parsed
    /\ last.executed # <<>>

\* C20: for every routed message an audit record with status pending is
\* written before the session check, the parsing, the permission check and
\* any handler; and for every message whose processing reaches a parsed
\* command (single command, multi-command or session completion) a further
\* audit record with status success or error is written when processing ends.
C20_AuditPendingThenOutcome ==
    last.op = "route" =>
        /\ last.audit # <<>>
        /\ last.audit[1] = "pending"
        /\ last.executed # <<>> =>
              /\ Len(last.audit) >= 2
              /\ last.audit[Len(last.audit)] \in {"success", "error"}

\* did the handler of a service command, called while the last message was
\* routed, throw (every handler call of a message of this specification is
\* answered alike)
HandlerThrew ==
    /\ last.op = "route"
    /\ last.env.completion = "throw"
    /\ \E i \in DOMAIN last.executed :
          /\ last.executed[i].outcome = "handler"
          /\ last.executed[i].type = "service"

\* C21: an exception thrown by a command handler, whether the command runs as
\* a single command, as one command of a multi-command message or on
\* completion of a session, is caught, recorded in an audit record with
\* status error, and answered with the generic text instead of the
\* exception's own message.
C21_HandlerExceptionGeneric ==
    HandlerThrew =>
        /\ last.reply = "generic"
        /\ last.audit[Len(last.audit)] = "error"

(***************************************************************************)
(* Operations of the state manager and of the permission manager as        *)
(* actions, for the specifications that exercise them directly.            *)
(***************************************************************************)
\* the observation left by an operation that returns nothing
Done(op) == [NoObservation EXCEPT !.op = op]

\* a parsed command as the permission manager reads it
Query(type, service, command) ==
    ParsedCommand(type, service, command, EmptyMap, <<>>, TRUE, FALSE)

\* StateManager.setRootSetting('isEnabled', value)
SetRootSetting(value) ==
    /\ state' = setRootSetting(state, value)
    /\ last' = Done("setRootSetting")
    /\ UNCHANGED <<now, inflight>>

\* StateManager.setAdminSetting(chatId, 'isEnabled', value)
SetAdminSetting(chatId, value) ==
    /\ state' = setAdminSetting(state, chatId, value)
    /\ last' = Done("setAdminSetting")
    /\ UNCHANGED <<now, inflight>>

\* StateManager.installService
InstallService(chatId, serviceName, participants) ==
    /\ state' = installService(state, chatId, serviceName,
                               IF chatId \in GroupChats THEN "group" ELSE "private",
                               participants.admins, participants.members,
                               getService(serviceName).roles)
    /\ last' = Done("installService")
    /\ UNCHANGED <<now, inflight>>

\* StateManager.setServiceSetting(chatId, serviceName, 'isEnabled', value)
SetServiceSetting(chatId, serviceName, value) ==
    /\ state' = setServiceSetting(state, chatId, serviceName, value)
    /\ last' = Done("setServiceSetting")
    /\ UNCHANGED <<now, inflight>>

\* StateManager.addUserRole
AddUserRole(chatId, serviceName, userId, role) ==
    /\ state' = addUserRole(state, chatId, serviceName, userId, role)
    /\ last' = Done("addUserRole")
    /\ UNCHANGED <<now, inflight>>

\* StateManager.removeUserRole
RemoveUserRole(chatId, serviceName, userId, role) ==
    /\ state' = removeUserRole(state, chatId, serviceName, userId, role)
    /\ last' = Done("removeUserRole")
    /\ UNCHANGED <<now, inflight>>

\* StateManager.addRootUser
AddRootUser(userId) ==
    /\ state' = addRootUser(state, userId)
    /\ last' = Done("addRootUser")
    /\ UNCHANGED <<now, inflight>>

\* PermissionManager.canExecute, asked for a user, a chat and a command
CanExecute(userId, chatId, parsedCommand) ==
    \E permission \in {canExecute(state,
                                   buildContext([from |-> userId, chat_id |-> chatId,
                                                 body |-> Plain("")]),
                                   parsedCommand)} :
       /\ last' = [op |-> "canExecute", userId |-> userId, chatId |-> chatId,
                   isGroup |-> chatId \in GroupChats,
                   type |-> parsedCommand.type, service |-> parsedCommand.service,
                   command |-> parsedCommand.command,
                   allowed |-> permission.allowed,
                   syntaxIndex |-> permission.syntaxIndex]
       /\ UNCHANGED <<state, now, inflight>>

(***************************************************************************)
(* Specification of the enable switches: the global and the per-chat       *)
(* isEnabled settings are set and cleared, and canExecute is asked.        *)
(***************************************************************************)
EnabledQueries ==
    {Query("builtin", Null, "ping"), Query("root", Null, "addRoot"),
     Query("admin", Null, "addBlacklist"), Query("service", "exp", "add"),
     Query("service", "exp", "list")}

SetGlobalSwitch == \E value \in BOOLEAN : SetRootSetting(value)

SetChatSwitch == \E chatId \in Chats, value \in BOOLEAN : SetAdminSetting(chatId, value)

InstallExpense == InstallService("g1@g.us", "exp", GroupParticipants)

AskEnabled ==
    \E userId \in Users, chatId \in Chats, query \in EnabledQueries :
       CanExecute(userId, chatId, query)

NextEnabled == SetGlobalSwitch \/ SetChatSwitch \/ InstallExpense \/ AskEnabled

SpecEnabled == Init /\ [][NextEnabled]_vars

\* is the bot switched off in the chat: its adminSettings.isEnabled is false
ChatSwitchedOff(st, chatId) ==
    st.chats[chatId].exists /\ st.chats[chatId].adminSettings.isEnabled = FALSE

\* C4: canExecute denies every command, of every type and for every user,
\* when rootSettings.isEnabled is false and when the adminSettings.isEnabled
\* of the message's chat is false.
C4_DisabledDeniesAll ==
    (/\ last.op = "canExecute"
     /\ ~state.rootSettings.isEnabled \/ ChatSwitchedOff(state, last.chatId))
        => ~last.allowed

(***************************************************************************)
(* Specification of service and admin permissions: services are installed, *)
(* switched on and off, roles are granted and withdrawn, a second root     *)
(* user is added, and canExecute is asked.                                 *)
(***************************************************************************)
\* (chat, service) pairs the specification installs
Installations ==
    {<<"g1@g.us", "exp">>, <<"p1@s.whatsapp.net", "chatbot">>,
     <<"p1@s.whatsapp.net", "exp">>}

\* (chat, service, user, role) grants the specification makes
Grants ==
    {<<"g1@g.us", "exp", "u2", "child">>, <<"g1@g.us", "exp", "*", "admin">>,
     <<"p1@s.whatsapp.net", "chatbot", "u2", "admin">>}

ServiceQueries ==
    {Query("admin", Null, "addBlacklist"), Query("service", "exp", "add"),
     Query("service", "exp", "edit"), Query("service", "exp", "nosuch"),
     Query("service", "chatbot", "sendMessage")}

Install ==
    \E pair \in Installations :
       InstallService(pair[1], pair[2],
                      IF pair[1] \in GroupChats THEN GroupParticipants ELSE NoParticipants)

SwitchService == \E value \in BOOLEAN : SetServiceSetting("g1@g.us", "exp", value)

Grant == \E g \in Grants : AddUserRole(g[1], g[2], g[3], g[4])

Withdraw == \E g \in Grants : RemoveUserRole(g[1], g[2], g[3], g[4])

AddSecondRoot == AddRootUser("u2")

AskService ==
    \E userId \in Users, chatId \in Chats, query \in ServiceQueries :
       CanExecute(userId, chatId, query)

NextService ==
    Install \/ SwitchService \/ Grant \/ Withdraw \/ AddSecondRoot \/ AskService

SpecService == Init /\ [][NextService]_vars

\* the roles of a ServiceInstance whose user list holds the user or '*'
ListedRoles(st, userId, chatId, service) ==
    LET roles == st.chats[chatId].services[service].roles
    IN {r \in DOMAIN roles : \E i \in DOMAIN roles[r] : roles[r][i] \in {userId, Wild}}

\* the effective roles of C8: root and admin for a root user, and the listed
\* roles
EffectiveRoles(st, userId, chatId, service) ==
    (IF userId \in st.rootUsers THEN {"root", "admin"} ELSE {})
        \cup ListedRoles(st, userId, chatId, service)

\* the syntaxes (counted from 0) of a catalog command that list '*' or one of
\* the roles
Qualifying(service, command, roles) ==
    LET syntaxes == ServiceRegistry[service].commands[command].syntaxes
    IN {i - 1 : i \in {j \in DOMAIN syntaxes :
                          /\ syntaxes[j].allowedRoles.has
                          /\ syntaxes[j].allowedRoles.items \cap (roles \cup {Wild}) # {}}}

\* C8: a service command is allowed only if the service is installed in the
\* chat, its isEnabled setting is not false, the chat is a group or the
\* service allows private chats, the command exists, and some syntax matches
\* the user's effective roles; the syntaxIndex returned is that of the first
\* such syntax.
C8_ServiceAllowedOnlyIf ==
    (last.op = "canExecute" /\ last.type = "service" /\ last.allowed) =>
        /\ state.chats[last.chatId].exists
        /\ state.chats[last.chatId].services[last.service].installed
        /\ LET settings == state.chats[last.chatId].services[last.service].serviceSettings
           IN ~("isEnabled" \in DOMAIN settings /\ settings.isEnabled = FALSE)
        /\ last.chatId \in GroupChats \/ ServiceRegistry[last.service].allowInPrivateChat
        /\ last.command \in DOMAIN ServiceRegistry[last.service].commands
        /\ LET hits == Qualifying(last.service, last.command,
                                  EffectiveRoles(state, last.userId, last.chatId,
                                                 last.service))
           IN /\ hits # {}
              /\ last.syntaxIndex \in hits
              /\ \A i \in hits : last.syntaxIndex <= i

\* C8 witness: a command allowed with its second syntax to a user who holds
\* the matching role only through '*'
C8_Witness ==
    /\ last.op = "canExecute" /\ last.type = "service" /\ last.allowed
    /\ last.syntaxIndex = 1
    /\ last.userId \notin state.rootUsers
    /\ \A r \in DOMAIN state.chats[last.chatId].services[last.service].roles :
          last.userId \notin Range(state.chats[last.chatId].services[last.service].roles[r])
             \/ r \notin {"admin", "parent"}

\* the admin rule of C9: is the user or '*' in the admin list of a service
\* installed in the chat
ListedAdmin(st, userId, chatId) ==
    /\ st.chats[chatId].exists
    /\ \E s \in Services :
          /\ st.chats[chatId].services[s].installed
          /\ "admin" \in DOMAIN st.chats[chatId].services[s].roles
          /\ \E i \in DOMAIN st.chats[chatId].services[s].roles["admin"] :
                st.chats[chatId].services[s].roles["admin"][i] \in {userId, Wild}

Entry(userId, groups, services, commands) ==
    [userId |-> userId, groups |-> groups, services |-> services, commands |-> commands]

\* entries as the root handler addBlacklist builds them: every list present
RootEntries ==
    {Entry("u2", Some({"g1@g.us"}), Some({"exp"}), Some({"add"})),
     Entry("u2", Some({Wild}), Some({"exp"}), Some({Wild}))}

\* entries as the admin handler addBlacklist builds them: no groups
GroupEntries ==
    {Entry("u2", Absent, Some({"exp"}), Some({"add"})),
     Entry("u2", Absent, Some({Wild}), Some({"list"}))}

\* the (groups, services, commands) arguments of the removals from the root
\* blacklist
RootRemovals ==
    {<<Absent, Absent, Absent>>, <<Absent, Some({"exp"}), Absent>>,
     <<Absent, Absent, Some({"add"})>>, <<Some({"g1@g.us"}), Some({"exp"}), Some({"add"})>>}

\* the (services, commands) arguments of the removals from a group blacklist
GroupRemovals ==
    {<<Some({"exp"}), Absent>>, <<Absent, Some({"add"})>>,
     <<Some({"exp"}), Some({"add", "list"})>>}

\* (user, chat, service, command) asked of the blacklists
BlacklistQueries ==
    {<<"u2", "g1@g.us", Null, "ping">>, <<"u2", "g1@g.us", "exp", "add">>,
     <<"u2", "g1@g.us", "exp", "list">>, <<"u2", "p1@s.whatsapp.net", "exp", "add">>,
     <<"u1", "g1@g.us", "exp", "add">>}

AddToRootBlacklist ==
    \E entry \in RootEntries :
       /\ Len(state.rootSettings.blackList) < MaxBlacklist
       /\ state' = addToRootBlacklist(state, entry)
       /\ last' = Done("addToRootBlacklist")
       /\ UNCHANGED <<now, inflight>>

AddToGroupBlacklist ==
    \E chatId \in GroupChats, entry \in GroupEntries :
       /\ Len(getGroupBlacklist(state, chatId)) < MaxBlacklist
       /\ state' = addToGroupBlacklist(state, chatId, entry)
       /\ last' = Done("addToGroupBlacklist")
       /\ UNCHANGED <<now, inflight>>

RemoveFromRootBlacklist ==
    \E r \in RootRemovals :
       /\ state' = removeFromRootBlacklist(state, "u2", r[1], r[2], r[3])
       /\ last' = [Done("removeFromRootBlacklist") EXCEPT
                      !.action = IF state' = state THEN "same" ELSE "changed"]
       /\ UNCHANGED <<now, inflight>>

RemoveFromGroupBlacklist ==
    \E chatId \in GroupChats, r \in GroupRemovals :
       /\ state' = removeFromGroupBlacklist(state, chatId, "u2", r[1], r[2])
       /\ last' = [Done("removeFromGroupBlacklist") EXCEPT
                      !.action = IF state' = state THEN "same" ELSE "changed"]
       /\ UNCHANGED <<now, inflight>>

\* PermissionManager.isGloballyBlacklisted and isGroupBlacklisted, asked as
\* canExecute asks them
CheckBlacklists ==
    \E q \in BlacklistQueries :
       /\ last' = [op |-> "checkBlacklist", userId |-> q[1], chatId |-> q[2],
                   service |-> q[3], command |-> q[4],
                   globally |-> isGloballyBlacklisted(state, q[1], q[2], q[3], q[4]),
                   inGroup |-> isGroupBlacklisted(state, q[1], q[2], q[3], q[4])]
       /\ UNCHANGED <<state, now, inflight>>

NextBlacklist ==
    \/ AddToRootBlacklist \/ AddToGroupBlacklist
    \/ RemoveFromRootBlacklist \/ RemoveFromGroupBlacklist
    \/ InstallExpense \/ CheckBlacklists

SpecBlacklist == Init /\ [][NextBlacklist]_vars

\* the matching rule of C5 for one list of an entry
ListCovers(list, v) == ~list.has \/ Wild \in list.items \/ v \in list.items

\* the matching rule of C5 for a blacklist
RuleMatches(blacklist, userId, chatId, service, command) ==
    \E i \in DOMAIN blacklist :
       /\ blacklist[i].userId = userId
       /\ ListCovers(blacklist[i].groups, chatId)
       /\ ListCovers(blacklist[i].services, service)
       /\ ListCovers(blacklist[i].commands, command)

\* C5: the blacklist check reports a match for (userId, chatId, service,
\* command) exactly when some entry has the userId and each of its groups,
\* services and commands lists is missing, contains '*', or contains the
\* chatId, the service and the command respectively; a command without a
\* service is not matched by an entry whose services list names only concrete
\* services.
C5_BlacklistMatchRule ==
    last.op = "checkBlacklist" =>
        /\ last.globally <=>
              RuleMatches(getRootBlacklist(state), last.userId, last.chatId,
                          last.service, last.command)
        /\ last.inGroup <=>
              RuleMatches(getGroupBlacklist(state, last.chatId), last.userId,
                          last.chatId, last.service, last.command)

\* the commands whose permission C6 compares before and after a change
MonotonicityQueries ==
    {Query("builtin", Null, "ping"), Query("service", "exp", "add"),
     Query("service", "exp", "list"), Query("service", "exp", "remove")}

\* canExecute for a user in a chat
Allowed(st, userId, chatId, parsedCommand) ==
    canExecute(st, buildContext([from |-> userId, chat_id |-> chatId, body |-> Plain("")]),
               parsedCommand).allowed

\* C6: adding an entry to the root blacklist or to a group blacklist never
\* turns a denied command into an allowed one, and a removal call, with any
\* combination of groups, services and commands arguments, never turns an
\* allowed command into a denied one, for every user, chat and command.
C6_BlacklistMonotonic ==
    [][\A userId \in Users, chatId \in Chats, q \in MonotonicityQueries :
          /\ last'.op \in {"addToRootBlacklist", "addToGroupBlacklist"} =>
                (~Allowed(state, userId, chatId, q) => ~Allowed(state', userId, chatId, q))
          /\ last'.op \in {"removeFromRootBlacklist", "removeFromGroupBlacklist"} =>
                (Allowed(state, userId, chatId, q) => Allowed(state', userId, chatId, q))]_vars

\* C6 witness: a removal has narrowed an entry in place, leaving it in the
\* list with an emptied field, while the user is still denied some command
C6_Witness ==
    /\ last.op = "removeFromRootBlacklist"
    /\ last.action = "changed"
    /\ \E i \in DOMAIN state.rootSettings.blackList :
          /\ state.rootSettings.blackList[i].services.has
          /\ state.rootSettings.blackList[i].services.items = {}
    /\ state.chats["g1@g.us"].exists
    /\ \E q \in MonotonicityQueries :
          /\ ~Allowed(state, "u2", "g1@g.us", q)
          /\ Allowed([state EXCEPT !.rootSettings.blackList = <<>>], "u2", "g1@g.us", q)

(***************************************************************************)
(* Specification of syntax selection: getBestMatchingSyntax is applied to  *)
(* a role set and a command definition drawn by the initial state.         *)
(***************************************************************************)
RoleNames == {"root", "admin", "member", "child"}

\* the allowedRoles of the syntaxes drawn: not listed, empty, wildcard, and
\* lists of role names
RoleLists == {Absent, Some({}), Some({Wild}), Some({"admin"}), Some({"member", "child"})}

\* command definitions with up to MaxSyntaxes syntaxes, and one with none
MaxSyntaxes == 2

CommandDefinitions ==
    {[interactive |-> TRUE, hasSyntaxes |-> FALSE, syntaxes |-> <<>>]}
        \cup {Cmd(TRUE, syntaxes) :
                 syntaxes \in UNION {[1..n -> {Syn(roles, <<>>) : roles \in RoleLists}] :
                                        n \in 0..MaxSyntaxes}}

InitSyntax ==
    /\ state = InitialState
    /\ now = 0
    /\ inflight = <<>>
    /\ \E userRoles \in SUBSET RoleNames, commandDef \in CommandDefinitions :
          last = [op |-> "input", userRoles |-> userRoles, commandDef |-> commandDef,
                  index |-> -1]

\* PermissionManager.getBestMatchingSyntax(userRoles, commandDef)
GetBestMatchingSyntax ==
    /\ last.op = "input"
    /\ last' = [last EXCEPT !.op = "getBestMatchingSyntax",
                            !.index = getBestMatchingSyntax(last.userRoles,
                                                            last.commandDef)]
    /\ UNCHANGED <<state, now, inflight>>

NextSyntax == GetBestMatchingSyntax

SpecSyntax == InitSyntax /\ [][NextSyntax]_vars

\* the least member of a non-empty set of integers, -1 for the empty set
Least(S) == IF S = {} THEN -1 ELSE CHOOSE i \in S : \A j \in S : i <= j

\* the indices (from 0) of the syntaxes whose listed allowedRoles contain '*'
\* or share a role with userRoles
ListedQualifying(userRoles, commandDef) ==
    {i - 1 : i \in {j \in DOMAIN commandDef.syntaxes :
                       /\ commandDef.syntaxes[j].allowedRoles.has
                       /\ commandDef.syntaxes[j].allowedRoles.items
                              \cap (userRoles \cup {Wild}) # {}}}

DefaultedQualifying(userRoles, syntaxes) ==
    {i - 1 : i \in {j \in DOMAIN syntaxes :
                       IF syntaxes[j].allowedRoles.has
                       THEN syntaxes[j].allowedRoles.items \cap (userRoles \cup {Wild}) # {}
                       ELSE "admin" \in userRoles}}

MaxInFlight == 2

\* what the root user u1 sends to the group
ConcurrentBodies ==
    {Command(".root addRoot", <<"root", "addRoot">>),
     Command(".root removeRoot", <<"root", "removeRoot">>),
     Plain("cancel")}

\* the loop of SessionManager.getActiveSession over the rest `entries` of its
\* snapshot, up to its next await on I/O: the deletion of an expired session
\* that is still in the store (StateManager.deleteSession saves only then)
RECURSIVE ScanToAwait(_, _, _, _, _)
ScanToAwait(st, entries, chatId, userId, t) ==
    IF entries = <<>>
    THEN [st |-> st, awaits |-> FALSE, found |-> FALSE, entries |-> <<>>]
    ELSE LET session == Head(entries)
         IN IF session.chatId = chatId /\ session.userId = userId
            THEN IF Expired(session, t)
                 THEN IF SessionIndex(st, session.key) # 0
                      THEN [st |-> deleteSession(st, session.key), awaits |-> TRUE,
                            found |-> FALSE, entries |-> Tail(entries)]
                      ELSE ScanToAwait(st, Tail(entries), chatId, userId, t)
                 ELSE [st |-> st, awaits |-> FALSE, found |-> TRUE,
                       session |-> session, entries |-> <<>>]
            ELSE ScanToAwait(st, Tail(entries), chatId, userId, t)

\* SessionManager.handleResponse from the answer of getActiveSession on.  A
\* session found in the snapshot is the object in the store; when another
\* message has deleted it meanwhile, 'cancel' deletes nothing and any other
\* text makes updateSession return null, on which isSessionComplete throws.
respondToScan(scan, text, t) ==
    IF ~scan.found THEN [st |-> scan.st, action |-> "no_session"]
    ELSE IF SessionIndex(scan.st, scan.session.key) # 0
    THEN respondToSession(scan.st, scan.st.sessions[SessionIndex(scan.st, scan.session.key)],
                          text, t)
    ELSE IF toLowerCase(text) = "cancel"
    THEN [st |-> scan.st, action |-> "cancelled", session |-> scan.session]
    ELSE [st |-> scan.st, action |-> "threw"]

\* a webhook request arrives: route builds the context and awaits logAudit
Receive ==
    \E body \in ConcurrentBodies :
       /\ Len(inflight) < MaxInFlight
       /\ inflight' = Append(inflight,
                             [message |-> [from |-> "u1", chat_id |-> "g1@g.us",
                                           body |-> body],
                              pc |-> "logAudit", entries |-> <<>>])
       /\ last' = Done("receive")
       /\ UNCHANGED <<state, now>>

\* the in-flight messages without message i
Others(i) == SubSeq(inflight, 1, i - 1) \o SubSeq(inflight, i + 1, Len(inflight))

\* how many messages of the pair of in-flight message i arrived before it
\* and are still in flight
Ahead(i) ==
    Cardinality({j \in 1..(i - 1) :
                    /\ inflight[j].message.from = inflight[i].message.from
                    /\ inflight[j].message.chat_id = inflight[i].message.chat_id})

\* message i goes on with the loop of getActiveSession over `entries`: to the
\* next await of the loop, or to the end of route
Proceed(i, entries) ==
    \E scan \in {ScanToAwait(state, entries, inflight[i].message.chat_id,
                             inflight[i].message.from, now)} :
       IF scan.awaits
       THEN /\ state' = scan.st
            /\ inflight' = [inflight EXCEPT ![i].pc = "deleteSession",
                                            ![i].entries = scan.entries]
            /\ last' = [Done("deleteSession") EXCEPT !.ahead = Ahead(i)]
       ELSE \E response \in {respondToScan(scan, inflight[i].message.body.text, now)} :
               IF response.action = "threw"
               THEN /\ state' = response.st
                    /\ inflight' = Others(i)
                    /\ last' = [Done("threw") EXCEPT !.ahead = Ahead(i)]
               ELSE \E run \in {routeResponded(buildContext(inflight[i].message),
                                                response, now,
                                                Env("text", GroupParticipants))} :
                       /\ WithinBounds(run.st)
                       /\ state' = run.st
                       /\ inflight' = Others(i)
                       /\ last' = [Done("route") EXCEPT !.action = run.action,
                                                        !.reply = run.reply,
                                                        !.ahead = Ahead(i)]

\* the audit log is saved: handleSessionResponse calls handleResponse, and
\* getActiveSession takes its snapshot of the sessions
AfterLogAudit ==
    \E i \in DOMAIN inflight :
       /\ inflight[i].pc = "logAudit"
       /\ Proceed(i, state.sessions)
       /\ UNCHANGED now

\* the document is saved after the deletion of an expired session: the loop of
\* getActiveSession goes on over the rest of its snapshot
AfterDeleteSession ==
    \E i \in DOMAIN inflight :
       /\ inflight[i].pc = "deleteSession"
       /\ Proceed(i, inflight[i].entries)
       /\ UNCHANGED now

NextConcurrent == Receive \/ AfterLogAudit \/ AfterDeleteSession \/ Tick

SpecConcurrent == Init /\ [][NextConcurrent]_vars

\* C2: for each pair (chatId, userId) the session store holds at most one
\* session with that chatId and userId, in every reachable state, after any
\* sequence and any interleaving of inbound messages.
C2_OneSessionPerPair ==
    \A i, j \in DOMAIN state.sessions :
       (state.sessions[i].chatId = state.sessions[j].chatId
           /\ state.sessions[i].userId = state.sessions[j].userId) => i = j

\* C14: of two messages of one (chatId, userId), the one delivered first has
\* its pending audit record written first, its session and command
\* processing ends before that of the other begins, and its reply is sent
\* first, under every interleaving of the two deliveries: no message is
\* processed while a message of its pair that arrived earlier is in flight.
C14_ArrivalOrder ==
    last.op \in {"deleteSession", "threw", "route"} => last.ahead = 0

(***************************************************************************)
(* Group membership.  Services are installed by the root handler with the  *)
(* participants the gateway reports, group participant events move users   *)
(* between the role lists, and the admin handlers grant and withdraw        *)
(* roles.                                                                  *)
(***************************************************************************)
\* most jids one group.participants event carries
MaxJids == 2

\* a removal that reaches the lists of admin and member only
removeMemberFromBaseRoles(st, chatId, userId) ==
    IF ~st.chats[chatId].exists THEN st
    ELSE LET services == st.chats[chatId].services
             Without(service) ==
                 IF ~service.installed THEN service
                 ELSE [service EXCEPT !.roles =
                          [r \in DOMAIN service.roles |->
                              IF r \in {"admin", "member"}
                              THEN RemoveFirst(service.roles[r], userId)
                              ELSE service.roles[r]]]
         IN [st EXCEPT !.chats[chatId].services =
                [s \in DOMAIN services |-> Without(services[s])]]

\* addMemberToServices pushing the user without asking whether the list
\* includes it
addMemberToServicesAgain(st, chatId, userId, isAdmin) ==
    IF ~st.chats[chatId].exists THEN st
    ELSE LET services == st.chats[chatId].services
             role == IF isAdmin THEN "admin" ELSE "member"
             With(service) ==
                 LET roleUsers == IF role \in DOMAIN service.roles
                                  THEN service.roles[role] ELSE <<>>
                 IN IF ~service.installed THEN service
                    ELSE [service EXCEPT !.roles =
                             [r \in DOMAIN service.roles \cup {role} |->
                                 IF r = role THEN Append(roleUsers, userId)
                                 ELSE service.roles[r]]]
         IN [st EXCEPT !.chats[chatId].services =
                [s \in DOMAIN services |-> With(services[s])]]

\* StateManager.addMemberToServices
addMemberToServices(st, chatId, userId, isAdmin) ==
    IF ~st.chats[chatId].exists THEN st
    ELSE LET services == st.chats[chatId].services
             role == IF isAdmin THEN "admin" ELSE "member"
             With(service) ==
                 LET roleUsers == IF role \in DOMAIN service.roles
                                  THEN service.roles[role] ELSE <<>>
                 IN IF ~service.installed \/ userId \in Range(roleUsers) THEN service
                    ELSE [service EXCEPT !.roles =
                             [r \in DOMAIN service.roles \cup {role} |->
                                 IF r = role THEN Append(roleUsers, userId)
                                 ELSE service.roles[r]]]
         IN [st EXCEPT !.chats[chatId].services =
                [s \in DOMAIN services |-> With(services[s])]]

\* StateManager.removeMemberFromServices
removeMemberFromServices(st, chatId, userId) ==
    IF ~st.chats[chatId].exists THEN st
    ELSE LET services == st.chats[chatId].services
             Without(service) ==
                 IF ~service.installed THEN service
                 ELSE [service EXCEPT !.roles =
                          [r \in DOMAIN service.roles |->
                              RemoveFirst(service.roles[r], userId)]]
         IN [st EXCEPT !.chats[chatId].services =
                [s \in DOMAIN services |-> Without(services[s])]]

\* the loop of Bot.handleGroupParticipantEvent over the jids of the event
RECURSIVE applyParticipantAction(_, _, _, _)
applyParticipantAction(st, chatId, action, jids) ==
    IF jids = <<>> THEN st
    ELSE LET userId == Head(jids)
             Applied ==
                 CASE action = "join" -> addMemberToServices(st, chatId, userId, FALSE)
                   [] action = "leave" -> removeMemberFromServices(st, chatId, userId)
                   [] action = "promote" -> addMemberToServices(st, chatId, userId, TRUE)
                   [] action = "demote" -> addMemberToServices(st, chatId, userId, FALSE)
                   [] OTHER -> st
         IN applyParticipantAction(Applied, chatId, action, Tail(jids))

\* Bot.handleGroupParticipantEvent
handleGroupParticipantEvent(st, payload) ==
    IF payload.chat_id = Null \/ payload.jids = <<>> THEN st
    ELSE applyParticipantAction(st, payload.chat_id, payload.type, payload.jids)

\* admin handler addRoles, for one user and one role
adminAddRoles(st, ctx) ==
    LET service == Arg(ctx.args, "service")
        userId == Arg(ctx.args, "userIds")
        role == Arg(ctx.args, "roles")
    IN IF service = Null \/ userId = Null \/ role = Null THEN st
       ELSE IF ~isServiceInstalled(st, ctx.chatId, service) THEN st
       ELSE IF role \notin {"admin", "member"} \cup Range(getService(service).roles) THEN st
       ELSE addUserRole(st, ctx.chatId, service, userId, role)

\* admin handler removeRoles, for one user and one role
adminRemoveRoles(st, ctx) ==
    LET service == Arg(ctx.args, "service")
        userId == Arg(ctx.args, "userIds")
        role == Arg(ctx.args, "roles")
    IN IF service = Null \/ userId = Null \/ role = Null THEN st
       ELSE IF ~isServiceInstalled(st, ctx.chatId, service) THEN st
       ELSE removeUserRole(st, ctx.chatId, service, userId, role)

\* lists of users without repetition
UserLists == {<<>>} \cup {<<u>> : u \in Users}
                \cup {<<u, v>> : <<u, v>> \in {w \in Users \X Users : w[1] # w[2]}}

\* answers of the gateway to getGroupParticipants: every participant of the
\* group is an admin or a member, not both
ParticipantAnswers ==
    {NoParticipants}
    \cup {[success |-> TRUE, admins |-> a, members |-> m] :
             <<a, m>> \in {w \in UserLists \X UserLists : Range(w[1]) \cap Range(w[2]) = {}}}

\* the jids of a group.participants event
RECURSIVE JidLists(_)
JidLists(n) ==
    IF n = 0 THEN {<<>>}
    ELSE JidLists(n - 1)
         \cup {Append(l, u) : l \in {k \in JidLists(n - 1) : Len(k) = n - 1}, u \in Users}

\* (service, role) grants the group's admin makes and withdraws
RoleGrants == {<<"exp", "parent">>, <<"chatbot", "nosuch">>}

\* is userId in some role list of some service installed in the chat
ListedSomewhere(st, chatId, userId) ==
    /\ st.chats[chatId].exists
    /\ \E s \in DOMAIN st.chats[chatId].services :
          /\ st.chats[chatId].services[s].installed
          /\ \E r \in DOMAIN st.chats[chatId].services[s].roles :
                userId \in Range(st.chats[chatId].services[s].roles[r])

\* the root user installs a service into the group
RootInstallsService ==
    \E service \in Services, participants \in ParticipantAnswers :
       /\ state' = rootInstallService(state,
                                      [userId |-> "u1", chatId |-> "g1@g.us",
                                       args |-> [chatId |-> "g1@g.us",
                                                 service |-> service]],
                                      [result |-> "text", participants |-> participants])
       /\ last' = [op |-> "installService", chatId |-> "g1@g.us", service |-> service,
                   participants |-> participants,
                   installedBefore |-> isServiceInstalled(state, "g1@g.us", service)]
       /\ UNCHANGED <<now, inflight>>

\* the gateway delivers a group.participants event
GroupParticipantsEvent ==
    \E type \in {"join", "leave", "promote", "demote"},
       jids \in JidLists(MaxJids) \ {<<>>} :
       /\ state' = handleGroupParticipantEvent(state, [type |-> type,
                                                       chat_id |-> "g1@g.us",
                                                       jids |-> jids])
       /\ last' = [op |-> "participants", chatId |-> "g1@g.us", type |-> type,
                   jids |-> jids,
                   listedBefore |-> {u \in Range(jids) :
                                        ListedSomewhere(state, "g1@g.us", u)}]
       /\ UNCHANGED <<now, inflight>>

\* an admin of the group grants a role
AdminAddsRole ==
    \E g \in RoleGrants, userId \in Users :
       /\ state' = adminAddRoles(state, [userId |-> "u1", chatId |-> "g1@g.us",
                                         args |-> [service |-> g[1], userIds |-> userId,
                                                   roles |-> g[2]]])
       /\ last' = Done("addRoles")
       /\ UNCHANGED <<now, inflight>>

\* an admin of the group withdraws a role
AdminRemovesRole ==
    \E g \in RoleGrants, userId \in Users :
       /\ state' = adminRemoveRoles(state, [userId |-> "u1", chatId |-> "g1@g.us",
                                            args |-> [service |-> g[1], userIds |-> userId,
                                                      roles |-> g[2]]])
       /\ last' = Done("removeRoles")
       /\ UNCHANGED <<now, inflight>>

NextRoles ==
    RootInstallsService \/ GroupParticipantsEvent \/ AdminAddsRole \/ AdminRemovesRole

SpecRoles == Init /\ [][NextRoles]_vars

\* the role lists of a service installed in a chat
RolesOf(st, chatId, service) == st.chats[chatId].services[service].roles

\* C15: installing service S into a chat where S is not installed, with the
\* participants {admins A, members M}, yields an instance whose roles.admin
\* is A, whose roles.member is M, and in which every further role S declares
\* maps to the empty list (A and M are empty when the gateway reports no
\* participants).
C15_InstallRoles ==
    (/\ last.op = "installService"
     /\ ~last.installedBefore
     /\ isServiceInstalled(state, last.chatId, last.service))
    => LET roles == RolesOf(state, last.chatId, last.service)
       IN /\ roles.admin = last.participants.admins
          /\ roles.member = last.participants.members
          /\ \A r \in Range(getService(last.service).roles) \ {"admin", "member"} :
                r \in DOMAIN roles /\ roles[r] = <<>>

\* C15 witness: the expense service, which declares further roles, has just
\* been installed with an admin and a member reported by the gateway
C15_Witness ==
    /\ last.op = "installService"
    /\ ~last.installedBefore
    /\ last.service = "exp"
    /\ isServiceInstalled(state, last.chatId, last.service)
    /\ last.participants.admins # <<>>
    /\ last.participants.members # <<>>

\* C16: after a group.participants event of type promote for user u in chat
\* C, in every service installed in C the admin list holds u and the member
\* list does not.
C16_PromoteMovesToAdmin ==
    (last.op = "participants" /\ last.type = "promote") =>
        \A u \in Range(last.jids), s \in Services :
            isServiceInstalled(state, last.chatId, s) =>
                /\ u \in Range(RolesOf(state, last.chatId, s).admin)
                /\ u \notin Range(RolesOf(state, last.chatId, s).member)

InstallBodies ==
    {Command(".root installService g1@g.us exp",
             <<"root", "installService", "g1@g.us", "exp">>),
     Command(".root installService g1@g.us chatbot",
             <<"root", "installService", "g1@g.us", "chatbot">>)}

\* messages of two commands, and cancel to close a session
MultiBodies ==
    {Body(".chatbot clearHistory\n.chatbot sendMessage hi",
          <<Line(TRUE, <<"chatbot", "clearHistory">>),
            Line(TRUE, <<"chatbot", "sendMessage", "hi">>)>>),
     Body(".chatbot sendMessage hi\n.chatbot sendMessage yo",
          <<Line(TRUE, <<"chatbot", "sendMessage", "hi">>),
            Line(TRUE, <<"chatbot", "sendMessage", "yo">>)>>),
     Body(".exp add\n.exp edit",
          <<Line(TRUE, <<"exp", "add">>), Line(TRUE, <<"exp", "edit">>)>>),
     Body(".exp add\n.exp list",
          <<Line(TRUE, <<"exp", "add">>), Line(TRUE, <<"exp", "list">>)>>),
     Plain("cancel")}

\* the outside world answering the handler call of the first command of a
\* message in any way, and the later calls with a text
MultiEnvs ==
    {[results |-> [k \in 1..MaxCommands |-> IF k = 1 THEN result ELSE "text"],
      completion |-> "text", participants |-> GroupParticipants, itemId |-> "i1"] :
        result \in HandlerResults}

\* the root user installs a service
InstallMessage ==
    \E body \in InstallBodies : Route("u1", "g1@g.us", body, Env("text", GroupParticipants))

\* the member of the group sends a message of several commands
MultiMessage ==
    \E body \in MultiBodies, env \in MultiEnvs : Route("u2", "g1@g.us", body, env)

NextMulti == InstallMessage \/ MultiMessage \/ Tick

SpecMulti == Init /\ [][NextMulti]_vars

\* the commands the message just routed was parsed into
ParsedOfLast ==
    parseMessage(state, buildContext([from |-> last'.userId, chat_id |-> last'.chatId,
                                      body |-> last'.body]))

\* a multi-command message has just been routed that met no session of its
\* sender to consume it
MultiRouted ==
    /\ last'.op = "route"
    /\ last'.action = "no_session"
    /\ last'.commands > 1

\* C18: in a multi-command message, for every service whose definition has
\* oneCmdPerMsg = true, the handler of at most one command of the service is
\* called, and it is that of the first command of the service in the
\* message; later commands of the service are not executed, whatever the
\* first command's outcome.
C18_OneCommandPerService ==
    [][MultiRouted =>
          \A service \in Services :
              getService(service).oneCmdPerMsg =>
                  LET ofService == {k \in DOMAIN ParsedOfLast :
                                       ParsedOfLast[k].service = service}
                      first == ParsedOfLast[CHOOSE k \in ofService :
                                               \A j \in ofService : k <= j]
                      called == {i \in DOMAIN last'.executed :
                                    /\ last'.executed[i].service = service
                                    /\ last'.executed[i].outcome = "handler"}
                  IN /\ Cardinality(called) <= 1
                     /\ \A i \in called :
                           /\ last'.executed[i].command = first.command
                           /\ last'.executed[i].args = first.args]_vars

\* would the command, sent alone, ask for its arguments: it is interactive,
\* comes without arguments and some syntax of it has a required parameter
AsksForArguments(parsed) ==
    /\ parsed.error = Null
    /\ parsed.interactive
    /\ (~parsed.hasRawArgs \/ IsBlank(parsed.rawArgs))
    /\ LET scope == IF parsed.type = "service" THEN parsed.service ELSE parsed.type
       IN /\ hasCommandDefinition(scope, parsed.command)
          /\ \E syntax \in Range(SyntaxesOf(getCommandDefinition(scope, parsed.command))) :
                \E param \in Range(syntax.parameters) :
                   ~param.optional /\ ~param.hasDefault

\* the document without the sessions of the pair that have expired at time t
RECURSIVE WithoutExpired(_, _, _, _)
WithoutExpired(st, chatId, userId, t) ==
    LET expired == {s \in SessionsOf(st, chatId, userId) : s.expiresAt < t}
    IN IF expired = {} THEN st
       ELSE WithoutExpired(deleteSession(st, (CHOOSE s \in expired : TRUE).key),
                           chatId, userId, t)

\* the sessions the message just routed has created
CreatedSessions == Range(state'.sessions) \ Range(state.sessions)

\* C19 as stated: a multi-command message in which more than one command
\* would trigger interactive mode is rejected as a whole, with one error
\* reply, no handler call, no session created and the state document
\* unchanged; one message never creates more than one session.
C19_RejectedUnchanged ==
    [][last'.op = "route" =>
          /\ Cardinality(CreatedSessions) <= 1
          /\ (/\ MultiRouted
              /\ Cardinality({k \in DOMAIN ParsedOfLast :
                                 AsksForArguments(ParsedOfLast[k])}) > 1)
             => /\ last'.reply = "error"
                /\ last'.executed = <<>>
                /\ CreatedSessions = {}
                /\ state' = state]_vars

\* C19 amended: a multi-command message in which more than one command would
\* trigger interactive mode is rejected as a whole, with one error reply, no
\* handler call and no session created, and leaves the state document as the
\* session check left it: unchanged but for the deletion of the sender's
\* expired sessions; one message never creates more than one session.
C19_RejectedAfterSessionCheck ==
    [][last'.op = "route" =>
          /\ Cardinality(CreatedSessions) <= 1
          /\ (/\ MultiRouted
              /\ Cardinality({k \in DOMAIN ParsedOfLast :
                                 AsksForArguments(ParsedOfLast[k])}) > 1)
             => /\ last'.reply = "error"
                /\ last'.executed = <<>>
                /\ CreatedSessions = {}
                /\ state' = WithoutExpired(state, last'.chatId, last'.userId, now)]_vars

\* C19 witness: a message of two commands that both ask for arguments has
\* been rejected while an expired session of its sender was in the store
C19_Witness ==
    /\ last.op = "route"
    /\ last.commands = 2
    /\ last.text = ".exp add\n.exp edit"
    /\ last.reply = "error"
    /\ last.hadExpired

(***************************************************************************)
(* Map keys.  Mongoose map keys may hold no dot, so the state manager      *)
(* encodes a chat id or user id before it uses it as a key and decodes the *)
(* keys it reads back.  Here a key is the sequence of its characters, and  *)
(* the display names of one chat are a map from encoded user ids to names. *)
(***************************************************************************)
MaxKeyLen == 2
MaxNames == 2

\* the characters keys are made of: a letter, the dot and the tilde
KeyChars == {"a", ".", "~"}

Keys == UNION {[1..n -> KeyChars] : n \in 0..MaxKeyLen}

DisplayNameValues == {"Ann", "Bob"}

\* StateManager.encodeKey: `key.replace(/\./g, '~')`, the empty key as it is
encodeKey(key) ==
    IF key = <<>> THEN key
    ELSE [i \in DOMAIN key |-> IF key[i] = "." THEN "~" ELSE key[i]]

\* StateManager.decodeKey: `key.replace(/~/g, '.')`, the empty key as it is
decodeKey(key) ==
    IF key = <<>> THEN key
    ELSE [i \in DOMAIN key |-> IF key[i] = "~" THEN "." ELSE key[i]]

\* StateManager.setUserDisplayName on the chat's displayNames
setUserDisplayName(displayNames, userId, name) ==
    MapSet(displayNames, encodeKey(userId), name)

\* StateManager.unsetUserDisplayName on the chat's displayNames
unsetUserDisplayName(displayNames, userId) ==
    MapDelete(displayNames, encodeKey(userId))

\* StateManager.getUserDisplayNames: the names under the decoded keys; a later
\* entry overwrites an earlier one that decodes to the same key, and distinct
\* stored keys decode to distinct keys since the stored keys hold no dot
getUserDisplayNames(displayNames) ==
    [userId \in {decodeKey(k) : k \in DOMAIN displayNames} |->
        displayNames[CHOOSE k \in DOMAIN displayNames : decodeKey(k) = userId]]

InitKeys ==
    /\ state = [displayNames |-> <<>>]
    /\ now = 0
    /\ inflight = <<>>
    /\ last = [op |-> "none", userId |-> <<>>, name |-> Null, names |-> <<>>]

SetUserDisplayName ==
    \E userId \in Keys \ {<<>>}, name \in DisplayNameValues :
       /\ Cardinality(DOMAIN setUserDisplayName(state.displayNames, userId, name))
             <= MaxNames
       /\ state' = [displayNames |->
                       setUserDisplayName(state.displayNames, userId, name)]
       /\ last' = [op |-> "setUserDisplayName", userId |-> userId, name |-> name,
                   names |-> <<>>]
       /\ UNCHANGED <<now, inflight>>

UnsetUserDisplayName ==
    \E userId \in Keys \ {<<>>} :
       /\ state' = [displayNames |-> unsetUserDisplayName(state.displayNames, userId)]
       /\ last' = [op |-> "unsetUserDisplayName", userId |-> userId, name |-> Null,
                   names |-> <<>>]
       /\ UNCHANGED <<now, inflight>>

GetUserDisplayNames ==
    /\ last' = [op |-> "getUserDisplayNames", userId |-> <<>>, name |-> Null,
                names |-> getUserDisplayNames(state.displayNames)]
    /\ UNCHANGED <<state, now, inflight>>

NextKeys == SetUserDisplayName \/ UnsetUserDisplayName \/ GetUserDisplayNames

SpecKeys == InitKeys /\ [][NextKeys]_vars

\* C22: decodeKey(encodeKey(k)) = k for every key k, with dots and with
\* tildes; hence two distinct user ids are never stored under the same
\* encoded key: once a name is set for a user id, the names read back hold
\* it under that very id, and the names of all other user ids are as before.
C22_KeyRoundTrip ==
    [][last'.op = "setUserDisplayName" =>
          /\ decodeKey(encodeKey(last'.userId)) = last'.userId
          /\ last'.userId \in DOMAIN getUserDisplayNames(state'.displayNames)
          /\ getUserDisplayNames(state'.displayNames)[last'.userId] = last'.name
          /\ \A v \in DOMAIN getUserDisplayNames(state.displayNames) \ {last'.userId} :
                /\ v \in DOMAIN getUserDisplayNames(state'.displayNames)
                /\ getUserDisplayNames(state'.displayNames)[v]
                      = getUserDisplayNames(state.displayNames)[v]]_vars

(***************************************************************************)
(* Args-only mode.  The root user installs services into the group g1, an  *)
(* admin of the chat sets the two parts of adminSettings.argsOnlyCommand,  *)
(* and the member u2 sends lines without a prefix.                         *)
(***************************************************************************)
\* StateManager.setAdminSetting for the keys 'argsOnlyCommand.service' and
\* 'argsOnlyCommand.command': the object is created when it is not there yet
setArgsOnlyCommand(st, chatId, field, value) ==
    LET Set(current) ==
            [(IF current.has THEN current
              ELSE [has |-> TRUE, service |-> Null, command |-> Null])
             EXCEPT ![field] = value]
    IN [ensureChat(st, chatId, "group") EXCEPT
           !.chats[chatId].adminSettings.argsOnlyCommand = Set(@)]

\* admin handler setSetting for a key under argsOnlyCommand
adminSetSetting(st, ctx) ==
    IF Arg(ctx.args, "setting") = Null THEN st
    ELSE setArgsOnlyCommand(st, ctx.chatId, ctx.args.setting, Arg(ctx.args, "value"))

ArgsOnlySettings == {<<"service", "exp">>, <<"command", "add">>, <<"command", "list">>}

ArgsOnlyBodies ==
    {Body("5 Coffee", <<Line(FALSE, <<"5", "Coffee">>)>>),
     Body("hello world", <<Line(FALSE, <<"hello", "world">>)>>),
     Body("5", <<Line(FALSE, <<"5">>)>>),
     Body("hello world\n5 Coffee",
          <<Line(FALSE, <<"hello", "world">>), Line(FALSE, <<"5", "Coffee">>)>>),
     Command(".exp add", <<"exp", "add">>)}

\* an admin of the group sets one part of argsOnlyCommand
AdminSetsArgsOnly ==
    \E setting \in ArgsOnlySettings :
       /\ state' = adminSetSetting(state, [userId |-> "u1", chatId |-> "g1@g.us",
                                           args |-> [setting |-> setting[1],
                                                     value |-> setting[2]]])
       /\ last' = Done("setSetting")
       /\ UNCHANGED <<now, inflight>>

\* the member of the group sends lines without a prefix
ArgsOnlyMessage ==
    \E body \in ArgsOnlyBodies :
       Route("u2", "g1@g.us", body, Env("text", GroupParticipants))

NextArgsOnly == InstallMessage \/ AdminSetsArgsOnly \/ ArgsOnlyMessage \/ Tick

SpecArgsOnly == Init /\ [][NextArgsOnly]_vars

\* is argsOnlyCommand of the chat set to a command of a service installed in
\* the chat, and does binding the tokens to the parameters of the command's
\* first syntax leave no required parameter unbound and give every parameter
\* that has a value one of its declared type
BindsCompletely(st, chatId, tokens) ==
    /\ st.chats[chatId].exists
    /\ st.chats[chatId].adminSettings.argsOnlyCommand.has
    /\ LET service == st.chats[chatId].adminSettings.argsOnlyCommand.service
           command == st.chats[chatId].adminSettings.argsOnlyCommand.command
       IN /\ service \in Services
          /\ st.chats[chatId].services[service].installed
          /\ command \in DOMAIN getService(service).commands
          /\ LET parameters == SyntaxesOf(getService(service).commands[command])[1].parameters
                 n == Len(parameters)
                 value(i) == IF i = n /\ parameters[i].type = "string"
                             THEN Join(SubSeq(tokens, i, Len(tokens)))
                             ELSE tokens[i]
             IN \A i \in 1..n :
                   IF i <= Len(tokens) THEN TypeOk(value(i), parameters[i].type)
                   ELSE parameters[i].optional \/ parameters[i].hasDefault

\* the sessions of the sender of the message just routed are none, or all
\* expired
MetNoLiveSession == last'.op = "route" /\ last'.action = "no_session"

\* C23 as stated: with argsOnlyCommand configured and its service installed a
\* prefix-less line becomes a command only if binding it to the command's
\* parameters leaves no required parameter unbound and every bound value
\* validates against its type; otherwise the line yields no command, and a
\* message that yields no command produces no reply, creates no session and
\* leaves the state document unchanged.
C23_ArgsOnlyOrIgnored ==
    [][MetNoLiveSession =>
          /\ \A k \in DOMAIN last'.body.lines :
                ~last'.body.lines[k].prefixed =>
                   (BindsCompletely(state, last'.chatId, last'.body.lines[k].tokens)
                      <=> \E j \in DOMAIN ParsedOfLast :
                             /\ ParsedOfLast[j].argsOnly
                             /\ ParsedOfLast[j].rawArgs = last'.body.lines[k].tokens)
          /\ ParsedOfLast = <<>> =>
                /\ last'.reply = "none"
                /\ last'.executed = <<>>
                /\ CreatedSessions = {}
                /\ state' = state]_vars

\* C23 amended: as C23, but a message that yields no command leaves the state
\* document as the session check left it: unchanged but for the deletion of
\* the sender's expired sessions.
C23_ArgsOnlyOrIgnoredAfterSessionCheck ==
    [][MetNoLiveSession =>
          /\ \A k \in DOMAIN last'.body.lines :
                ~last'.body.lines[k].prefixed =>
                   (BindsCompletely(state, last'.chatId, last'.body.lines[k].tokens)
                      <=> \E j \in DOMAIN ParsedOfLast :
                             /\ ParsedOfLast[j].argsOnly
                             /\ ParsedOfLast[j].rawArgs = last'.body.lines[k].tokens)
          /\ ParsedOfLast = <<>> =>
                /\ last'.reply = "none"
                /\ last'.executed = <<>>
                /\ CreatedSessions = {}
                /\ state' = WithoutExpired(state, last'.chatId, last'.userId, now)]_vars

\* C23 witness: with argsOnlyCommand set to `exp add` and exp installed, the
\* line `hello world` has been ignored while an expired session of its sender
\* was in the store
C23_Witness ==
    /\ last.op = "route"
    /\ last.text = "hello world"
    /\ last.reply = "none"
    /\ last.commands = 0
    /\ last.hadExpired
    /\ state.chats["g1@g.us"].services["exp"].installed
    /\ state.chats["g1@g.us"].adminSettings.argsOnlyCommand
          = [has |-> TRUE, service |-> "exp", command |-> "add"]

(***************************************************************************)
(* Service storage: the operations of the storage manager, each run to     *)
(* its end, on lists of records that hold an id and a value.               *)
(***************************************************************************)
\* what StorageManager.generateId may yield: the clock's milliseconds and four
\* random bytes, so two calls may yield the same id
ItemIds == {"i1", "i2"}

ItemValues == {"tea", "rent"}

\* the indices callers pass: below 1, within and above the list
ItemIndices == 0..(MaxItems + 1)

\* the storage lists operated on: one of a ServiceInstance, one of another
\* service of the same chat and one of the same service in another chat
StorageLists ==
    {<<"g1@g.us", "exp", "expenses">>, <<"g1@g.us", "chatbot", "history">>,
     <<"p1@s.whatsapp.net", "exp", "expenses">>}

\* the number of records the lists `lists` of the document hold
RECURSIVE CountIn(_, _)
CountIn(st, lists) ==
    IF lists = {} THEN 0
    ELSE LET l == CHOOSE x \in lists : TRUE
         IN Len(getStorage(st, l[1], l[2], l[3])) + CountIn(st, lists \ {l})

\* the number of records the document holds
CountItems(st) == CountIn(st, StorageLists)

\* a storage operation has run to its end on the list l
Stored(op, l, arg, value, done) ==
    /\ CountItems(done.st) <= MaxItems
    /\ state' = done.st
    /\ last' = [op |-> op, chatId |-> l[1], service |-> l[2], storageName |-> l[3],
                arg |-> arg, value |-> value, found |-> done.found,
                item |-> done.item,
                lenBefore |-> Len(getStorage(state, l[1], l[2], l[3]))]
    /\ UNCHANGED <<now, inflight>>

InitStorage ==
    /\ state = InitialState
    /\ now = 0
    /\ inflight = <<>>
    /\ last = [op |-> "none", chatId |-> Null, service |-> Null, storageName |-> Null,
               arg |-> Null, value |-> Null, found |-> FALSE, item |-> <<>>,
               lenBefore |-> 0]

AddItem ==
    \E l \in StorageLists, value \in ItemValues, id \in ItemIds :
       Stored("addItem", l, id, value,
              addItem(state, l[1], l[2], l[3], [value |-> value], id))

UpdateItem ==
    \E l \in StorageLists, itemId \in ItemIds, value \in ItemValues :
       Stored("updateItem", l, itemId, value,
              updateItem(state, l[1], l[2], l[3], itemId, value))

UpdateItemByIndex ==
    \E l \in StorageLists, index \in ItemIndices, value \in ItemValues :
       Stored("updateItemByIndex", l, index, value,
              updateItemByIndex(state, l[1], l[2], l[3], index, value))

DeleteItem ==
    \E l \in StorageLists, itemId \in ItemIds :
       Stored("deleteItem", l, itemId, Null, deleteItem(state, l[1], l[2], l[3], itemId))

DeleteItemByIndex ==
    \E l \in StorageLists, index \in ItemIndices :
       Stored("deleteItemByIndex", l, index, Null,
              deleteItemByIndex(state, l[1], l[2], l[3], index))

NextStorage ==
    \/ AddItem
    \/ UpdateItem
    \/ UpdateItemByIndex
    \/ DeleteItem
    \/ DeleteItemByIndex

SpecStorage == InitStorage /\ [][NextStorage]_vars

\* the list the last operation addressed, before and after it
ListBefore == getStorage(state, last'.chatId, last'.service, last'.storageName)
ListAfter == getStorage(state', last'.chatId, last'.service, last'.storageName)

\* the position the last operation addressed: the index given, or that of the
\* first record with the id given; 0 when the list has no such position
Addressed ==
    IF last'.op \in {"updateItem", "deleteItem"}
    THEN (IF \E i \in DOMAIN ListBefore : ListBefore[i].id = last'.arg
          THEN CHOOSE i \in DOMAIN ListBefore :
                  /\ ListBefore[i].id = last'.arg
                  /\ \A j \in DOMAIN ListBefore : ListBefore[j].id = last'.arg => i <= j
          ELSE 0)
    ELSE IF last'.arg \in DOMAIN ListBefore THEN last'.arg ELSE 0

\* C24: addItem leaves the existing records in place and appends the new
\* record as the last element; updateItem and updateItemByIndex change only
\* the addressed record and keep its position and the list's length;
\* deleteItem and deleteItemByIndex remove exactly the addressed record and
\* keep the order of the others; an index below 1 or above the length, or an
\* unknown id, is answered with absent/false and leaves the list unchanged.
C24_StorageListOperations ==
    [][/\ last'.op = "addItem" =>
             /\ Len(ListAfter) = Len(ListBefore) + 1
             /\ SubSeq(ListAfter, 1, Len(ListBefore)) = ListBefore
             /\ ListAfter[Len(ListAfter)].value = last'.value
             /\ last'.item = <<ListAfter[Len(ListAfter)]>>
       /\ last'.op \in {"updateItem", "updateItemByIndex", "deleteItem",
                        "deleteItemByIndex"} =>
             /\ last'.found <=> Addressed # 0
             /\ Addressed = 0 => ListAfter = ListBefore /\ last'.item = <<>>
       /\ (last'.op \in {"updateItem", "updateItemByIndex"} /\ Addressed # 0) =>
             /\ Len(ListAfter) = Len(ListBefore)
             /\ \A i \in DOMAIN ListBefore : i # Addressed => ListAfter[i] = ListBefore[i]
             /\ ListAfter[Addressed].id = ListBefore[Addressed].id
             /\ ListAfter[Addressed].value = last'.value
             /\ last'.item = <<ListAfter[Addressed]>>
       /\ (last'.op \in {"deleteItem", "deleteItemByIndex"} /\ Addressed # 0) =>
             /\ Len(ListAfter) = Len(ListBefore) - 1
             /\ \A i \in DOMAIN ListAfter :
                   ListAfter[i] = ListBefore[IF i < Addressed THEN i ELSE i + 1]]_vars

\* C24 witness: the first of two records of a list has been deleted by index
C24_Witness ==
    /\ last.op = "deleteItemByIndex"
    /\ last.arg = 1
    /\ last.found
    /\ last.lenBefore = 2
    /\ Len(getStorage(state, last.chatId, last.service, last.storageName)) = 1

\* the storage map of a service of a chat, empty where there is none
StorageOf(st, chatId, serviceName) ==
    IF st.chats[chatId].exists /\ st.chats[chatId].services[serviceName].installed
    THEN st.chats[chatId].services[serviceName].storage
    ELSE <<>>

\* the document that holds the list l of the document st and nothing else
Isolated(st, l) == setStorage(InitialState, l[1], l[2], l[3], getStorage(st, l[1], l[2], l[3]))

\* the operation `op` of the storage manager on the list l
Operation(op, st, l, arg, value) ==
    CASE op = "addItem" -> addItem(st, l[1], l[2], l[3], [value |-> value], arg)
      [] op = "updateItem" -> updateItem(st, l[1], l[2], l[3], arg, value)
      [] op = "updateItemByIndex" -> updateItemByIndex(st, l[1], l[2], l[3], arg, value)
      [] op = "deleteItem" -> deleteItem(st, l[1], l[2], l[3], arg)
      [] op = "deleteItemByIndex" -> deleteItemByIndex(st, l[1], l[2], l[3], arg)

\* the last operation gave what it gives on the document `alone`
SameAsOn(alone, l) ==
    /\ last'.found = alone.found
    /\ last'.item = alone.item
    /\ ListAfter = getStorage(alone.st, l[1], l[2], l[3])

\* the last operation, on the list l, read and changed that list only
ScopedTo(l) ==
    /\ \A c \in Chats, s \in Services :
          <<c, s>> # <<l[1], l[2]>> => StorageOf(state', c, s) = StorageOf(state, c, s)
    /\ \A n \in DOMAIN StorageOf(state, l[1], l[2]) :
          n # l[3] => StorageOf(state', l[1], l[2])[n] = StorageOf(state, l[1], l[2])[n]
    /\ SameAsOn(Operation(last'.op, Isolated(state, l), l, last'.arg, last'.value), l)

\* C28: a storage operation run for a chat and a service changes only the
\* storage lists of that chat's instance of the service, the lists of every
\* other service and chat being unchanged, and reads only the list it
\* addresses: its answer and the list it leaves are those it gives on a
\* document that holds nothing but that list.
C28_StorageScoped ==
    [][ScopedTo(<<last'.chatId, last'.service, last'.storageName>>)]_vars

\* C28 witness: a record has been added to the expenses of the group while
\* another service of the group and the same service of another chat hold
\* records, or hold the service at least
C28_Witness ==
    /\ last.op = "addItem"
    /\ last.chatId = "g1@g.us"
    /\ last.service = "exp"
    /\ Len(getStorage(state, "g1@g.us", "exp", "expenses")) = 1
    /\ Len(getStorage(state, "p1@s.whatsapp.net", "exp", "expenses")) = 1
    /\ isServiceInstalled(state, "g1@g.us", "chatbot")

(***************************************************************************)
(* List arguments.  TypeParser.parseList reads one token: splitList cuts   *)
(* it at the commas and each item is trimmed.  An item is modelled by what *)
(* the parser takes it for: blank (skipped), two runs of digits around a   *)
(* dash (a range), the text of an integer, or any other text.              *)
(***************************************************************************)
MaxListItems == 4

IntItem(n) == [kind |-> "int", from |-> n, to |-> n]
RangeItem(n, m) == [kind |-> "range", from |-> n, to |-> m]
BlankItem == [kind |-> "blank", from |-> 0, to |-> 0]
WordItem == [kind |-> "word", from |-> 0, to |-> 0]

ListItems ==
    {IntItem(1), IntItem(4), RangeItem(3, 5), RangeItem(5, 3), BlankItem, WordItem}

ListTokens == UNION {[1..n -> ListItems] : n \in 0..MaxListItems}

\* the parameter definitions: `min` and `max` given or not
NotGiven == [given |-> FALSE, n |-> 0]
Given(n) == [given |-> TRUE, n |-> n]

ListParamDefs ==
    {[min |-> min, max |-> max] : min \in {NotGiven, Given(2)},
                                  max \in {NotGiven, Given(3)}}

\* TypeParser.parseInt on an item: `Number(value)` is an integer
parseIntItem(item) ==
    IF item.kind = "int" THEN [success |-> TRUE, value |-> item.from]
    ELSE [success |-> FALSE, value |-> 0]

\* the loop of parseList over a range: from `start` in steps of one to `end`
RangeRun(start, end) ==
    IF start <= end THEN [i \in 1..(end - start + 1) |-> start + i - 1]
    ELSE [i \in 1..(start - end + 1) |-> start - i + 1]

\* the loop of parseList over the items from item k on; `results` holds what
\* was pushed so far
RECURSIVE ParseItems(_, _, _, _)
ParseItems(items, type, k, results) ==
    IF k > Len(items) THEN [success |-> TRUE, value |-> results]
    ELSE IF items[k].kind = "blank" THEN ParseItems(items, type, k + 1, results)
    ELSE IF items[k].kind = "range" /\ type \in {"int", "float", "number"}
    THEN ParseItems(items, type, k + 1,
                    results \o RangeRun(items[k].from, items[k].to))
    ELSE IF parseIntItem(items[k]).success
    THEN ParseItems(items, type, k + 1, Append(results, parseIntItem(items[k]).value))
    ELSE [success |-> FALSE, value |-> <<>>]

\* a list returned as it was collected
NotDeduplicated(results) == results

\* `[...new Set(results)]`: the values in the order they were first inserted
RECURSIVE Unique(_)
Unique(results) ==
    IF results = <<>> THEN <<>>
    ELSE LET init == Unique(SubSeq(results, 1, Len(results) - 1))
             x == results[Len(results)]
         IN IF x \in Range(init) THEN init ELSE Append(init, x)

\* TypeParser.parseList for a numeric type
parseList(items, type, paramDef) ==
    LET min == IF paramDef.min.given THEN paramDef.min.n ELSE 0
        Checked(unique) ==
            IF Len(unique) < min THEN [success |-> FALSE, value |-> <<>>]
            ELSE IF paramDef.max.given /\ Len(unique) > paramDef.max.n
            THEN [success |-> FALSE, value |-> <<>>]
            ELSE [success |-> TRUE, value |-> unique]
        Parsed(parsed) == IF ~parsed.success THEN parsed
                          ELSE Checked(Unique(parsed.value))
    IN Parsed(ParseItems(items, type, 1, <<>>))

InitList ==
    /\ state = InitialState
    /\ now = 0
    /\ inflight = <<>>
    /\ \E items \in ListTokens, paramDef \in ListParamDefs :
          last = [op |-> "input", items |-> items, paramDef |-> paramDef,
                  success |-> FALSE, value |-> <<>>]

ParseList ==
    /\ last.op = "input"
    /\ \E parsed \in {parseList(last.items, "int", last.paramDef)} :
          last' = [last EXCEPT !.op = "parseList", !.success = parsed.success,
                               !.value = parsed.value]
    /\ UNCHANGED <<state, now, inflight>>

NextList == ParseList

SpecList == InitList /\ [][NextList]_vars

\* the integers an item stands for, in order
ItemRun(item) ==
    CASE item.kind = "int" -> <<item.from>>
      [] item.kind = "range" ->
            [i \in 1..((IF item.from <= item.to THEN item.to - item.from
                        ELSE item.from - item.to) + 1) |->
                IF item.from <= item.to THEN item.from + (i - 1) ELSE item.from - (i - 1)]
      [] OTHER -> <<>>

RECURSIVE Flattened(_)
Flattened(items) ==
    IF items = <<>> THEN <<>> ELSE ItemRun(Head(items)) \o Flattened(Tail(items))

\* a sequence without the values that occurred earlier in it
FirstOccurrences(seq) ==
    LET keep == {i \in DOMAIN seq : \A j \in 1..(i - 1) : seq[j] # seq[i]}
    IN [k \in 1..Cardinality(keep) |->
           seq[CHOOSE i \in keep : Cardinality({j \in keep : j <= i}) = k]]

\* the token 1,3-5,4,4
ExampleList == <<IntItem(1), RangeItem(3, 5), IntItem(4), IntItem(4)>>

\* C25: parsing a token as a list of int yields the items in input order,
\* each N-M replaced by the inclusive run from N to M (ascending if N <= M,
\* descending otherwise), then without every value that occurred earlier,
\* and min/max are checked against the length of the deduplicated list;
\* 1,3-5,4,4 yields [1,3,4,5].
C25_ListRangesDeduplicated ==
    last.op = "parseList" =>
        LET expected == FirstOccurrences(Flattened(last.items))
            min == IF last.paramDef.min.given THEN last.paramDef.min.n ELSE 0
            wellFormed == \A i \in DOMAIN last.items : last.items[i].kind # "word"
        IN /\ last.success <=>
                 /\ wellFormed
                 /\ Len(expected) >= min
                 /\ last.paramDef.max.given => Len(expected) <= last.paramDef.max.n
           /\ last.success => last.value = expected
           /\ (last.items = ExampleList /\ ~last.paramDef.max.given /\ min = 0)
                 => last.value = <<1, 3, 4, 5>>

\* C25 witness: the token 1,3-5,4,4 has been parsed
C25_Witness ==
    /\ last.op = "parseList"
    /\ last.items = ExampleList
    /\ last.success
    /\ last.value = <<1, 3, 4, 5>>

(***************************************************************************)
(* Webhook events.  The gateway posts events that carry the id of the      *)
(* device the bot is logged in as; the device may be the number of a user  *)
(* of the chat (here the root user u1) or a number of its own.             *)
(***************************************************************************)
DeviceIds == {"u1", "bot"}

WebhookEvents == {"message", "message.ack"}

WebhookBodies ==
    {Command(".root installService g1@g.us exp",
             <<"root", "installService", "g1@g.us", "exp">>),
     Command(".exp add", <<"exp", "add">>),
     Command(".ping", <<"ping">>),
     Plain("cancel")}

\* an event Bot.handleWebhook answers without routing it
NotRouted(st) ==
    [st |-> st, executed |-> <<>>, reply |-> "none", action |-> "not_routed",
     parsed |-> FALSE, commands |-> 0, audit |-> <<>>]

\* handleWebhook routing the messages of the device itself as well
handleWebhookOfAnySender(st, webhookData, t, env) ==
    IF webhookData.event # "message" THEN NotRouted(st)
    ELSE route(st, webhookData.payload, t, env)

\* Bot.handleWebhook for the events that are no participant events
handleWebhook(st, webhookData, t, env) ==
    IF webhookData.event # "message" THEN NotRouted(st)
    ELSE IF webhookData.payload.from = webhookData.device_id THEN NotRouted(st)
    ELSE route(st, webhookData.payload, t, env)

\* the gateway posts an event
Webhook ==
    \E event \in WebhookEvents, device_id \in DeviceIds, from \in Users,
       body \in WebhookBodies :
       \E run \in {handleWebhook(state,
                                 [event |-> event, device_id |-> device_id,
                                  payload |-> [from |-> from, chat_id |-> "g1@g.us",
                                               body |-> body]],
                                 now, Env("text", GroupParticipants))} :
          /\ WithinBounds(run.st)
          /\ state' = run.st
          /\ last' = [op |-> "webhook", event |-> event, device_id |-> device_id,
                      from |-> from, text |-> body.text,
                      hadSession |-> HasLiveSession(state, "g1@g.us", from, now),
                      action |-> run.action, parsed |-> run.parsed,
                      executed |-> run.executed, reply |-> run.reply,
                      audit |-> run.audit]
          /\ UNCHANGED <<now, inflight>>

NextWebhook == Webhook \/ Tick

SpecWebhook == Init /\ [][NextWebhook]_vars

\* C26: a message event whose payload.from equals the event's device_id is
\* skipped: no audit record is written, no session is read or changed, no
\* command is parsed or executed, and no reply is sent.
C26_SelfMessageSkipped ==
    [][(/\ last'.op = "webhook"
        /\ last'.event = "message"
        /\ last'.from = last'.device_id) =>
          /\ last'.audit = <<>>
          /\ last'.action = "not_routed"
          /\ state'.sessions = state.sessions
          /\ state' = state
          /\ ~last'.parsed
          /\ last'.executed = <<>>
          /\ last'.reply = "none"]_vars

\* C26 witness: the device's own message has been skipped while a session of
\* the same user was waiting for an answer
C26_Witness ==
    /\ last.op = "webhook"
    /\ last.event = "message"
    /\ last.from = last.device_id
    /\ last.text = "cancel"
    /\ last.hadSession
    /\ state.sessions # <<>>

(***************************************************************************)
(* Installing and removing a service while members use it: the root user   *)
(* installs and removes the expense service of the group, and the member   *)
(* runs `add` of the service, whose handler is the one of                   *)
(* services/exp/handler.js, at once or through a session.                  *)
(***************************************************************************)
ManageBodies ==
    {Command(".root installService g1@g.us exp",
             <<"root", "installService", "g1@g.us", "exp">>),
     Command(".root removeService g1@g.us exp",
             <<"root", "removeService", "g1@g.us", "exp">>)}

MemberBodies ==
    {Command(".exp add", <<"exp", "add">>),
     Command(".exp add 5 Coffee", <<"exp", "add", "5", "Coffee">>),
     Plain("5"), Plain("Coffee")}

\* the root user installs or removes the service
ManageMessage ==
    \E body \in ManageBodies : Route("u1", "g1@g.us", body, Env("text", GroupParticipants))

\* the member sends a command of the service, or an answer to a prompt
MemberMessage ==
    \E body \in MemberBodies : Route("u2", "g1@g.us", body, Env("code", GroupParticipants))

NextInstall == ManageMessage \/ MemberMessage \/ Tick

SpecInstall == Init /\ [][NextInstall]_vars

\* did the message just routed run the root handler installService for the
\* service in the chat
InstalledByRoot(chatId, serviceName) ==
    /\ last'.op = "route"
    /\ \E i \in DOMAIN last'.executed :
          /\ last'.executed[i].outcome = "handler"
          /\ last'.executed[i].type = "root"
          /\ last'.executed[i].command = "installService"
          /\ Arg(last'.executed[i].args, "chatId") = chatId
          /\ Arg(last'.executed[i].args, "service") = serviceName

\* C27: a ServiceInstance of a chat comes into existence only through the
\* root install command: whenever a step takes a service of a chat from
\* absent to installed (at first, or after the root remove command), the
\* step is a message that ran the root handler installService for that chat
\* and service, whatever else was processed in between.
C27_InstanceOnlyByInstall ==
    [][\A c \in Chats, s \in Services :
          (~isServiceInstalled(state, c, s) /\ isServiceInstalled(state', c, s))
             => InstalledByRoot(c, s)]_vars

(***************************************************************************)
(* Handlers at their awaits.  Messages of one chat are routed at once; a   *)
(* message gives way to the others where it awaits I/O: at the save of the *)
(* audit log when route begins, and, in the handler `add` of the expense   *)
(* service, at the save of the document in StorageManager.addItem, after   *)
(* which the handler reads the list again for the total of its reply.      *)
(* Between these awaits a message runs with no other message in between:   *)
(* the state document is held in memory and no lock is taken anywhere.     *)
(***************************************************************************)
\* what the member and the root user send to the group
HandlerBodies ==
    [u2 |-> {Command(".exp add 5 Coffee", <<"exp", "add", "5", "Coffee">>)},
     u1 |-> {Command(".root installService g1@g.us exp",
                     <<"root", "installService", "g1@g.us", "exp">>),
             Command(".root removeService g1@g.us exp",
                     <<"root", "removeService", "g1@g.us", "exp">>)}]

\* `userEntries.reduce((sum, e) => sum + Number(e.amount || 0), 0)` over the
\* entries of the list added by the user
RECURSIVE TotalOf(_, _)
TotalOf(entries, userId) ==
    IF entries = <<>> THEN 0
    ELSE (IF Head(entries).addedBy = userId THEN NumberOf(Head(entries).amount) ELSE 0)
            + TotalOf(Tail(entries), userId)

\* the total the handler `add` reports: over the list as getStorage gives it
NewTotal(st, chatId, userId) == TotalOf(getStorage(st, chatId, "exp", "expenses"), userId)

\* did the run of route call the handler `add` of the expense service
RanAdd(run) ==
    \E k \in DOMAIN run.executed :
       /\ run.executed[k].outcome = "handler"
       /\ run.executed[k].type = "service"
       /\ run.executed[k].service = "exp"
       /\ run.executed[k].command = "add"

HandlerDone(op, userId, total, chat, seen) ==
    [op |-> op, userId |-> userId, total |-> total, chat |-> chat, seen |-> seen]

InitHandlers ==
    /\ state = InitialState
    /\ now = 0
    /\ inflight = <<>>
    /\ last = HandlerDone("none", Null, 0, NoChat, NoChat)

\* a webhook request arrives: route builds the context and awaits logAudit
Arrive ==
    \E userId \in DOMAIN HandlerBodies :
       \E body \in HandlerBodies[userId] :
          /\ Len(inflight) < MaxInFlight
          /\ inflight' = Append(inflight,
                                [message |-> [from |-> userId, chat_id |-> "g1@g.us",
                                              body |-> body],
                                 pc |-> "logAudit", seen |-> NoChat])
          /\ last' = HandlerDone("arrive", userId, 0, NoChat, NoChat)
          /\ UNCHANGED <<state, now>>

\* the audit log is saved: the message goes on through the session check,
\* the parser and the permission check into its handler.  The handler `add`
\* goes to the await of the save in addItem, the record being in the list;
\* any other message goes to its end.
ToHandler ==
    \E i \in DOMAIN inflight :
       /\ inflight[i].pc = "logAudit"
       /\ \E run \in {route(state, inflight[i].message, now,
                             Env("code", GroupParticipants))} :
             /\ WithinBounds(run.st)
             /\ state' = run.st
             /\ inflight' = IF RanAdd(run)
                            THEN [inflight EXCEPT
                                     ![i].pc = "saveState",
                                     ![i].seen = run.st.chats[inflight[i].message.chat_id]]
                            ELSE Others(i)
             /\ last' = HandlerDone(IF RanAdd(run) THEN "saveState" ELSE "route",
                                    inflight[i].message.from, 0, NoChat, NoChat)
       /\ UNCHANGED now

\* the document is saved: the handler `add` reads the list and answers with
\* the total of the user's entries
AfterSaveState ==
    \E i \in DOMAIN inflight :
       /\ inflight[i].pc = "saveState"
       /\ inflight' = Others(i)
       /\ last' = HandlerDone("added", inflight[i].message.from,
                              NewTotal(state, inflight[i].message.chat_id,
                                       inflight[i].message.from),
                              state.chats[inflight[i].message.chat_id],
                              inflight[i].seen)
       /\ UNCHANGED <<state, now>>

NextHandlers == Arrive \/ ToHandler \/ AfterSaveState

SpecHandlers == InitHandlers /\ [][NextHandlers]_vars

\* the total of the user's entries in the expenses of a chat document
TotalIn(chat, userId) ==
    IF chat.exists /\ chat.services["exp"].installed
       /\ "expenses" \in DOMAIN chat.services["exp"].storage
    THEN TotalOf(chat.services["exp"].storage["expenses"], userId)
    ELSE 0

\* C29: the span of a message from its permission check to the end of its
\* handler is atomic for the chat: when the handler `add` ends, the chat's
\* state is the state its permission check saw with the handler's own write,
\* no other message of the chat having changed it, and the total it answers
\* with is the total of that state.
C29_ChatSpanAtomic ==
    last.op = "added" =>
        /\ last.chat = last.seen
        /\ last.total = TotalIn(last.seen, last.userId)

(***************************************************************************)
(* Arguments of a command of several syntaxes.  A command definition of    *)
(* two syntaxes, the roles of the sender and the argument tokens of the    *)
(* message are drawn by the initial state; the command is parsed (bound    *)
(* against the first syntax), the permission manager selects a syntax, and *)
(* executeSingleCommand and executeCommand pass the arguments on: to a new *)
(* session when required parameters are unbound, to the handler otherwise. *)
(***************************************************************************)
\* most parameters of a syntax drawn
MaxParams == 2

\* a parameter with a default value
Def(n, t) == [name |-> n, type |-> t, optional |-> FALSE, hasDefault |-> TRUE]

ParameterDefs == {Req("amount", "int"), Opt("note", "string"), Def("count", "int")}

\* the parameter lists drawn: lists of distinct parameters
ParameterLists ==
    {params \in UNION {[1..n -> ParameterDefs] : n \in 0..MaxParams} :
        \A i, j \in DOMAIN params : params[i] = params[j] => i = j}

\* definitions of an interactive command whose first syntax is the members'
\* and whose second is the admins'
RebindDefinitions ==
    {Cmd(TRUE, <<Syn(Some({"member"}), first), Syn(Some({"admin"}), second)>>) :
        first \in ParameterLists, second \in ParameterLists}

RebindRoles == {{"member"}, {"admin"}}

\* the argument tokens of the message: none, one, two, and quoted white space
RebindTokens == {<<>>, <<"5">>, <<"5", "milk">>, <<" ">>}

InitRebind ==
    /\ state = InitialState
    /\ now = 0
    /\ inflight = <<>>
    /\ \E commandDef \in RebindDefinitions, userRoles \in RebindRoles,
          tokens \in RebindTokens :
          last = [op |-> "input", commandDef |-> commandDef, userRoles |-> userRoles,
                  tokens |-> tokens, parsed |-> Query("service", "exp", "add"),
                  to |-> "none", passed |-> EmptyMap]

\* CommandParser.parseServiceCommand: the arguments bound by
\* parseArgumentsFromParts, the raw arguments kept
ParseCommand ==
    /\ last.op = "input"
    /\ last' = [last EXCEPT
                   !.op = "parsed",
                   !.parsed = ParsedCommand("service", "exp", "add",
                                            parseArgumentsFromParts(last.tokens,
                                                                    last.commandDef),
                                            last.tokens, last.commandDef.interactive,
                                            FALSE)]
    /\ UNCHANGED <<state, now, inflight>>

\* executeSingleCommand from the answer of canExecute on, and executeCommand
\* up to the session it creates or the handler it calls
PassOn(parsed) ==
    IF parsed.interactive /\ noArgsProvided(parsed)
       /\ getMissingArgs(parsed.args, last.commandDef, parsed.syntaxIndex) # <<>>
    THEN [last EXCEPT
             !.op = "executed", !.parsed = parsed, !.to = "session",
             !.passed = NewSession(buildContext([from |-> "u2", chat_id |-> "g1@g.us",
                                                 body |-> Plain(".exp add")]),
                                   parsed,
                                   getMissingArgs(parsed.args, last.commandDef,
                                                  parsed.syntaxIndex),
                                   now).collectedArgs]
    ELSE [last EXCEPT !.op = "executed", !.parsed = parsed, !.to = "handler",
                      !.passed = parsed.args]

ExecuteParsed ==
    /\ last.op = "parsed"
    /\ last' = PassOn(WithSyntaxOf(last.parsed,
                                   [Allow EXCEPT
                                       !.roles = last.userRoles,
                                       !.syntaxIndex =
                                           getBestMatchingSyntax(last.userRoles,
                                                                 last.commandDef)],
                                   <<last.commandDef>>))
    /\ UNCHANGED <<state, now, inflight>>

NextRebind == ParseCommand \/ ExecuteParsed

SpecRebind == InitRebind /\ [][NextRebind]_vars

\* C30: when the permission selects a syntax past the first, the arguments
\* passed on, to the handler or as collectedArgs of the new session, are the
\* binding of the message's tokenized raw arguments against the parameters
\* of the selected syntax, with that syntax's defaults and optional nulls and
\* no value bound from the first syntax, also when there are no raw
\* arguments.
C30_ArgsOfSelectedSyntax ==
    (last.op = "executed" /\ last.parsed.syntaxIndex > 0) =>
        last.passed = parseArgumentsByDefinition(
                          tokenizeRaw(last.tokens),
                          ParametersOf(last.commandDef, last.parsed.syntaxIndex))

(***************************************************************************)
(* Order of the commands of a message.  The root user sends messages of    *)
(* two commands of which one installs or removes the expense service and   *)
(* the other is a command of that service, so that what the second command *)
(* meets depends on the first having run to its end.                       *)
(***************************************************************************)
OrderBodies ==
    {Body(".root installService g1@g.us exp\n.exp list",
          <<Line(TRUE, <<"root", "installService", "g1@g.us", "exp">>),
            Line(TRUE, <<"exp", "list">>)>>),
     Body(".exp list\n.root installService g1@g.us exp",
          <<Line(TRUE, <<"exp", "list">>),
            Line(TRUE, <<"root", "installService", "g1@g.us", "exp">>)>>),
     Body(".root removeService g1@g.us exp\n.exp list",
          <<Line(TRUE, <<"root", "removeService", "g1@g.us", "exp">>),
            Line(TRUE, <<"exp", "list">>)>>),
     Body(".exp list\n.root removeService g1@g.us exp",
          <<Line(TRUE, <<"exp", "list">>),
            Line(TRUE, <<"root", "removeService", "g1@g.us", "exp">>)>>)}

\* the outside world answering the handler call of each command in any way
OrderEnvs ==
    {[results |-> results, completion |-> "text", participants |-> GroupParticipants,
      itemId |-> "i1"] : results \in [1..MaxCommands -> HandlerResults]}

\* the root user sends a message of two commands
OrderMessage ==
    \E body \in OrderBodies, env \in OrderEnvs : Route("u1", "g1@g.us", body, env)

NextOrder == OrderMessage

SpecOrder == Init /\ [][NextOrder]_vars

\* the context of the message just routed
ContextOfLast ==
    buildContext([from |-> last'.userId, chat_id |-> last'.chatId, body |-> last'.body])

\* the world as command k of the message just routed meets it
EnvOfLine(k) == [last'.env EXCEPT !.results = [j \in DOMAIN @ |-> @[k]]]

\* command k of the message just routed, run by itself from the document st
AloneFrom(st, k) == executeSingleCommand(st, ContextOfLast, ParsedOfLast[k], now, EnvOfLine(k))

\* the responses of the message just routed
ResponsesOfLast ==
    executeEach([st |-> state, executed |-> <<>>, responses |-> <<>>],
                ContextOfLast, ParsedOfLast, 1, now, last'.env).responses

\* the two commands have run as if sent one after the other: `first` is the
\* run of the first by itself, `second` that of the second from the document
\* the first left
RanInOrder(first, second) ==
    /\ state' = second.st
    /\ last'.executed = first.executed \o second.executed
    /\ combinedText(ResponsesOfLast) =
          (IF first.reply = "none" THEN <<>> ELSE <<1>>)
             \o (IF second.reply = "none" THEN <<>> ELSE <<2>>)

\* C31: the commands of a multi-command message are permission-checked and
\* executed in the order of their lines, each finishing before the next
\* starts: the message leaves the document, and calls the handlers, as its
\* commands do when run one after the other, the second from the document
\* the first left; the combined reply holds the outcomes of the commands
\* that have one, in the order of the lines.
C31_CommandsInLineOrder ==
    [][(MultiRouted /\ Len(ParsedOfLast) = 2)
          => RanInOrder(AloneFrom(state, 1), AloneFrom(AloneFrom(state, 1).st, 2))]_vars

\* C31 witness: the service was not installed, and the message installed it
\* with its first command and ran a command of it with its second, both
\* being answered
C31_Witness ==
    /\ last.op = "route"
    /\ last.text = ".root installService g1@g.us exp\n.exp list"
    /\ last.commands = 2
    /\ Len(last.executed) = 2
    /\ last.executed[1].command = "installService"
    /\ last.executed[1].outcome = "handler"
    /\ last.executed[2].command = "list"
    /\ last.executed[2].outcome = "handler"
    /\ last.reply = "text"

(***************************************************************************)
(* Union types.  TypeParser.parseUnion is applied to a token and a union   *)
(* of branch types drawn by the initial state.  A token is a text; what    *)
(* the parsers ask of a text (is it the text of an integer, has it white   *)
(* space, how does it end) is given for the texts drawn.                   *)
(***************************************************************************)
\* most branches of a union drawn
MaxBranches == 3

UnionTokens == {"*", "5", "exp", "a b", "g1@g.us", "u1@s.whatsapp.net"}

\* `!isNaN(Number(value)) && Number.isInteger(Number(value))`
IsIntegerText(value) == value = "5"

\* `/\s/.test(value)`
HasWhiteSpace(value) == value = "a b"

\* `value.endsWith(suffix)`
EndsWith(value, suffix) ==
    \/ suffix = "@g.us" /\ value = "g1@g.us"
    \/ suffix = "@s.whatsapp.net" /\ value = "u1@s.whatsapp.net"

\* the type catalog (definitions/types.json): the types derived from another
\* type.  No text drawn is rejected by a base type and accepted by the
\* suffix check, so the base types of GroupId and UserId do not matter here.
DerivedFrom == [GroupId |-> "string", UserId |-> "string", Service |-> "word"]

BranchTypes == {"int", "word", "GroupId", "UserId", "Service", "*"}

\* the unions drawn: two or more branches
UnionTypes == UNION {[1..n -> BranchTypes] : n \in 2..MaxBranches}

ParseFailure == [success |-> FALSE, number |-> FALSE, value |-> ""]
ParsedText(value) == [success |-> TRUE, number |-> FALSE, value |-> value]

\* TypeParser.parseInt: the value it returns is the number
parseInt(value) ==
    IF IsIntegerText(value) THEN [success |-> TRUE, number |-> TRUE, value |-> value]
    ELSE ParseFailure

\* TypeParser.parseWord
parseWord(value) == IF HasWhiteSpace(value) THEN ParseFailure ELSE ParsedText(value)

\* TypeParser.validateDerivedType
validateDerivedType(value, type) ==
    CASE type = "GroupId" ->
            IF EndsWith(value, "@g.us") THEN ParsedText(value) ELSE ParseFailure
      [] type = "UserId" ->
            IF EndsWith(value, "@s.whatsapp.net") THEN ParsedText(value) ELSE ParseFailure
      [] type \in {"Role", "Service", "Command", "Setting"} -> parseWord(value)
      [] OTHER -> ParsedText(value)

\* TypeParser.parseBaseType for a type that is not derived
parseSwitch(value, type) ==
    CASE type = "int" -> parseInt(value)
      [] type = "word" -> parseWord(value)
      [] type \in {"string", "any", "*"} -> ParsedText(value)
      [] OTHER -> ParsedText(value)

\* TypeParser.parseBaseType
parseBaseType(value, type) ==
    IF type \in DOMAIN DerivedFrom
    THEN (IF parseSwitch(value, DerivedFrom[type]).success
          THEN validateDerivedType(value, type)
          ELSE parseSwitch(value, DerivedFrom[type]))
    ELSE parseSwitch(value, type)

\* the loop of TypeParser.parseUnion from branch i on
RECURSIVE parseBranches(_, _, _)
parseBranches(value, types, i) ==
    IF i > Len(types) THEN ParseFailure
    ELSE IF types[i] = "*" /\ value = "*" THEN ParsedText("*")
    ELSE IF parseBaseType(value, types[i]).success THEN parseBaseType(value, types[i])
    ELSE parseBranches(value, types, i + 1)

\* TypeParser.parseUnion
parseUnion(value, types) == parseBranches(value, types, 1)

InitUnion ==
    /\ state = InitialState
    /\ now = 0
    /\ inflight = <<>>
    /\ \E value \in UnionTokens, types \in UnionTypes :
          last = [op |-> "input", value |-> value, types |-> types,
                  result |-> ParseFailure]

ParseUnion ==
    /\ last.op = "input"
    /\ last' = [last EXCEPT !.op = "parseUnion",
                            !.result = parseUnion(last.value, last.types)]
    /\ UNCHANGED <<state, now, inflight>>

NextUnion == ParseUnion

SpecUnion == InitUnion /\ [][NextUnion]_vars

\* what a branch gives by itself, the branch '*' taking the token '*' only
BranchAlone(value, type) ==
    IF type = "*" THEN (IF value = "*" THEN ParsedText("*") ELSE ParseFailure)
    ELSE parseBaseType(value, type)

\* the branches of the union just parsed that take the token by themselves
Taking == {i \in DOMAIN last.types : BranchAlone(last.value, last.types[i]).success}

\* C32: the branches of a union are tried left to right and the first one
\* that succeeds gives the result, the branch '*' succeeding only for the
\* token '*': when no branch takes the token, parsing fails.
C32_UnionFirstSuccess ==
    last.op = "parseUnion" =>
        IF Taking = {} THEN ~last.result.success
        ELSE last.result = BranchAlone(last.value,
                                       last.types[CHOOSE i \in Taking :
                                                     \A j \in Taking : i <= j])

(***************************************************************************)
(* Answers to a prompt, routed at once.  A message gives way to the others *)
(* at the save of the audit log when route begins and at the save of the   *)
(* document in SessionManager.updateSession, which follows the change of   *)
(* the session in the store; between these awaits it runs alone.  The root *)
(* user installs the service, the member opens a session of `add` and      *)
(* answers its prompts; `last` counts the sessions created and the handler *)
(* calls made for a completed session.                                     *)
(***************************************************************************)
\* most sessions the member opens
MaxCreated == 1

AnswerBodies ==
    [u1 |-> {Command(".root installService g1@g.us exp",
                     <<"root", "installService", "g1@g.us", "exp">>)},
     u2 |-> {Command(".exp add", <<"exp", "add">>), Plain("5"), Plain("Coffee")}]

Counted(op, created, calls) == [op |-> op, created |-> created, calls |-> calls]

InitAnswers ==
    /\ state = InitialState
    /\ now = 0
    /\ inflight = <<>>
    /\ last = Counted("none", 0, 0)

\* the handler calls a run of route has made for a completed session
SessionCalls(run) ==
    Cardinality({k \in DOMAIN run.executed :
                    run.executed[k].viaSession /\ run.executed[k].outcome = "handler"})

\* the sessions a run of route has created
SessionsCreated(run) ==
    Cardinality({k \in DOMAIN run.executed : run.executed[k].outcome = "session"})

\* a webhook request arrives: route builds the context and awaits logAudit.
\* The member opens a session while fewer than MaxCreated were opened and no
\* message that opens one is in flight.
ArriveAnswer ==
    \E userId \in DOMAIN AnswerBodies :
       \E body \in AnswerBodies[userId] :
          /\ Len(inflight) < MaxInFlight
          /\ body.text = ".exp add" =>
                /\ last.created < MaxCreated
                /\ \A j \in DOMAIN inflight : inflight[j].message.body.text # ".exp add"
          /\ inflight' = Append(inflight,
                                [message |-> [from |-> userId, chat_id |-> "g1@g.us",
                                              body |-> body],
                                 pc |-> "logAudit", session |-> Null])
          /\ last' = [last EXCEPT !.op = "arrive"]
          /\ UNCHANGED <<state, now>>

\* message i goes on from the answer `response` of handleResponse to the end
\* of route
Finish(i, response) ==
    \E run \in {routeResponded(buildContext(inflight[i].message), response, now,
                                Env("text", GroupParticipants))} :
       /\ WithinBounds(run.st)
       /\ state' = run.st
       /\ inflight' = Others(i)
       /\ last' = Counted(response.action, last.created + SessionsCreated(run),
                          last.calls + SessionCalls(run))

\* the messages in flight when message i has changed the session `before` of
\* the store to `updated` and waits for the save: the messages waiting in
\* updateSession on that session hold the object of the store
Holding(i, before, updated) ==
    [j \in DOMAIN inflight |->
        IF j = i THEN [inflight[j] EXCEPT !.pc = "saveSession", !.session = updated]
        ELSE IF inflight[j].pc = "saveSession" /\ inflight[j].session = before
        THEN [inflight[j] EXCEPT !.session = updated]
        ELSE inflight[j]]

\* SessionManager.handleResponse from the answer `active` of getActiveSession
\* to its next await or its end: with no session the message is parsed;
\* `cancel` deletes the session; a session with no pending argument left is
\* deleted and completes; else updateSession changes the session in the store
\* and awaits the save ("awaits", with the session as it was before)
respondToAwait(active, text, t) ==
    IF ~active.found THEN [st |-> active.st, action |-> "no_session"]
    ELSE IF toLowerCase(text) = "cancel"
    THEN [st |-> deleteSession(active.st, active.session.key),
          action |-> "cancelled", session |-> active.session]
    ELSE IF active.session.currentArgIndex >= Len(active.session.pendingArgs)
    THEN [st |-> deleteSession(active.st, active.session.key),
          action |-> "complete", session |-> active.session]
    ELSE [st |-> updateSession(active.st, active.session.key,
                               active.session.pendingArgs[
                                   active.session.currentArgIndex + 1],
                               IF toLowerCase(text) = "skip" THEN Null ELSE text, t),
          action |-> "awaits", session |-> active.session]

\* SessionManager.handleResponse once updateSession has returned `session`:
\* a session with no argument pending is deleted and completes
respondUpdated(st, session, text) ==
    IF isSessionComplete(session)
    THEN [st |-> deleteSession(st, session.key), action |-> "complete",
          session |-> session]
    ELSE [st |-> st,
          action |-> IF toLowerCase(text) = "skip" THEN "skipped" ELSE "continue",
          session |-> session]

\* the audit log is saved: handleSessionResponse calls handleResponse
ToSession ==
    \E i \in DOMAIN inflight :
       /\ inflight[i].pc = "logAudit"
       /\ \E response \in {respondToAwait(
                                getActiveSession(state, inflight[i].message.chat_id,
                                                 inflight[i].message.from, now),
                                inflight[i].message.body.text, now)} :
             IF response.action = "awaits"
             THEN /\ state' = response.st
                  /\ inflight' = Holding(i, response.session,
                                         response.st.sessions[
                                             SessionIndex(response.st,
                                                          response.session.key)])
                  /\ last' = [last EXCEPT !.op = "updateSession"]
             ELSE Finish(i, response)
       /\ UNCHANGED now

\* the document is saved: updateSession returns the session it changed
AfterSaveSession ==
    \E i \in DOMAIN inflight :
       /\ inflight[i].pc = "saveSession"
       /\ \E response \in {respondUpdated(state, inflight[i].session,
                                           inflight[i].message.body.text)} :
             Finish(i, response)
       /\ UNCHANGED now

NextAnswers == ArriveAnswer \/ ToSession \/ AfterSaveSession

SpecAnswers == InitAnswers /\ [][NextAnswers]_vars

\* C33: a session leads to at most one call of its command's handler: the
\* handler calls made for completed sessions never outnumber the sessions
\* created, under any interleaving of the member's messages.
C33_SessionCompletesOnce == last.calls <= last.created

(***************************************************************************)
(* Rejected commands.  The root user installs the expense service and      *)
(* blacklists the member; the member sends commands the parser gives an    *)
(* error for, commands canExecute denies and commands that run, alone and  *)
(* two in a message.                                                       *)
(***************************************************************************)
RejectedBodies ==
    {Command(".root", <<"root">>),
     Command(".root addRoot u2", <<"root", "addRoot", "u2">>),
     Command(".admin addBlacklist u1", <<"admin", "addBlacklist", "u1">>),
     Command(".exp nosuch", <<"exp", "nosuch">>),
     Command(".exp add", <<"exp", "add">>),
     Command(".exp add 5", <<"exp", "add", "5">>),
     Command(".ping", <<"ping">>),
     Body(".root addRoot u2\n.exp nosuch",
          <<Line(TRUE, <<"root", "addRoot", "u2">>), Line(TRUE, <<"exp", "nosuch">>)>>),
     Body(".exp add 5\n.root addRoot u2",
          <<Line(TRUE, <<"exp", "add", "5">>), Line(TRUE, <<"root", "addRoot", "u2">>)>>)}

\* the member of the group sends a message
RejectedMessage ==
    \E body \in RejectedBodies : Route("u2", "g1@g.us", body, Env("text", GroupParticipants))

NextRejected == RootMessage \/ RejectedMessage \/ Tick

SpecRejected == Init /\ [][NextRejected]_vars

\* the command carries a parse error, or canExecute denies it to the sender
\* of the message just routed in the document st
Rejected(st, parsed) ==
    \/ parsed.error # Null
    \/ ~canExecute(st, ContextOfLast, parsed).allowed

\* chats (with their roles, storage, settings and blacklists), the root
\* settings with the global blacklist and the root users are the same in
\* both documents
SameButSessions(st1, st2) ==
    /\ st1.chats = st2.chats
    /\ st1.rootSettings = st2.rootSettings
    /\ st1.rootUsers = st2.rootUsers

\* C34: when a parsed command carries a parse error or canExecute denies
\* it, no handler is invoked for it, no session is created, chats, roles,
\* storage, settings, blacklists and root users are unchanged, and the only
\* outcome is an error reply: of a message that met no session, only
\* commands canExecute allows are executed, at most as many as are not
\* rejected; when every command of the message is rejected nothing is
\* executed, no session is created, the document but for its sessions is
\* unchanged and the reply is the error (for a single command the parse
\* error or the denial reason, for several the errors joined).
C34_RejectedCommandInert ==
    [][(last'.op = "route" /\ last'.action = "no_session" /\ ParsedOfLast # <<>>) =>
          /\ \A i \in DOMAIN last'.executed : last'.executed[i].authorized
          /\ Len(last'.executed)
                <= Cardinality({k \in DOMAIN ParsedOfLast :
                                   ~Rejected(state, ParsedOfLast[k])})
          /\ (\A k \in DOMAIN ParsedOfLast : Rejected(state, ParsedOfLast[k])) =>
                /\ last'.executed = <<>>
                /\ CreatedSessions = {}
                /\ SameButSessions(state, state')
                /\ last'.reply = IF Len(ParsedOfLast) > 1 THEN "text"
                                 ELSE IF ParsedOfLast[1].error # Null THEN "error"
                                 ELSE "denied"]_vars

\* C34 witness: the member's message `.root addRoot u2` followed by
\* `.exp nosuch`, a denied command and one with a parse error, has been
\* answered with the two errors and nothing was executed, the expense
\* service being installed
C34_Witness ==
    /\ last.op = "route"
    /\ last.text = ".root addRoot u2\n.exp nosuch"
    /\ last.commands = 2
    /\ last.executed = <<>>
    /\ last.reply = "text"
    /\ isServiceInstalled(state, "g1@g.us", "exp")
    /\ "u2" \notin state.rootUsers

(***************************************************************************)
(* Blacklisted users.  The root user installs the expense service, puts    *)
(* the member or itself on the global blacklist or on the blacklist of the *)
(* group, and both send commands of every type.                            *)
(***************************************************************************)
BannedBodies ==
    [u1 |-> {Command(".root installService g1@g.us exp",
                     <<"root", "installService", "g1@g.us", "exp">>),
             Command(".root addBlacklist u1", <<"root", "addBlacklist", "u1">>),
             Command(".root addBlacklist u2", <<"root", "addBlacklist", "u2">>),
             Command(".admin addBlacklist u1", <<"admin", "addBlacklist", "u1">>),
             Command(".root addRoot u2", <<"root", "addRoot", "u2">>),
             Command(".exp list", <<"exp", "list">>),
             Command(".ping", <<"ping">>)},
     u2 |-> {Command(".ping", <<"ping">>),
             Command(".exp list", <<"exp", "list">>),
             Command(".admin addBlacklist u1", <<"admin", "addBlacklist", "u1">>),
             Command(".root addRoot u2", <<"root", "addRoot", "u2">>)}]

\* a user sends a command in the group
BannedMessage ==
    \E userId \in DOMAIN BannedBodies :
       \E body \in BannedBodies[userId] :
          Route(userId, "g1@g.us", body, Env("text", GroupParticipants))

NextBanned == BannedMessage \/ Tick

SpecBanned == Init /\ [][NextBanned]_vars

\* an entry of the global blacklist or of the blacklist of the chat matches
\* the sender of the message just routed and the command
Blacklisted(st, parsed) ==
    \/ isGloballyBlacklisted(st, last'.userId, last'.chatId, parsed.service,
                             parsed.command)
    \/ isGroupBlacklisted(st, last'.userId, last'.chatId, parsed.service,
                          parsed.command)

\* C35: the global and the group blacklist are evaluated before the rule of
\* the command type, so a blacklisted user is denied every command type:
\* builtin commands despite their unconditional allow, root and admin
\* commands even when the user is a root user.  A command of a sender whom
\* a blacklist matches is answered with a denial and nothing is executed.
C35_BlacklistBeforeType ==
    [][(/\ last'.op = "route"
        /\ last'.action = "no_session"
        /\ Len(ParsedOfLast) = 1
        /\ ParsedOfLast[1].error = Null
        /\ Blacklisted(state, ParsedOfLast[1]))
       => /\ last'.reply = "denied"
          /\ last'.executed = <<>>
          /\ SameButSessions(state, state')]_vars

\* C35 witness: the root user u1, on the global blacklist, has been denied
\* the root command addRoot and is still a root user
C35_Witness ==
    /\ last.op = "route"
    /\ last.userId = "u1"
    /\ last.text = ".root addRoot u2"
    /\ last.reply = "denied"
    /\ "u1" \in state.rootUsers
    /\ \E i \in DOMAIN state.rootSettings.blackList :
          state.rootSettings.blackList[i].userId = "u1"

(***************************************************************************)
(* Root users.  The root user of the first boot and a second user send the *)
(* root commands addRoot and removeRoot, with the user id or without it;   *)
(* without it a session asks for the user id and the answer completes the  *)
(* command.                                                                *)
(***************************************************************************)
RootsBodies ==
    {Command(".root addRoot u2", <<"root", "addRoot", "u2">>),
     Command(".root removeRoot u1", <<"root", "removeRoot", "u1">>),
     Command(".root removeRoot u2", <<"root", "removeRoot", "u2">>),
     Command(".root removeRoot", <<"root", "removeRoot">>),
     Plain("u1"), Plain("u2")}

\* a user sends a message in the group
RootsMessage ==
    \E userId \in Users, body \in RootsBodies :
       Route(userId, "g1@g.us", body, Env("text", GroupParticipants))

NextRoots == RootsMessage \/ Tick

SpecRoots == Init /\ [][NextRoots]_vars

\* C36: the root set, not empty after the first boot, is not empty in any
\* reachable state: no sequence of the root commands addRoot and
\* removeRoot, issued directly or completed through interactive sessions by
\* any users, empties it.
C36_RootSetNeverEmpty == state.rootUsers # {}

(***************************************************************************)
(* Role lists without repetition.                                          *)
(***************************************************************************)
\* no user id occurs twice in the list
NoDuplicates(users) ==
    \A i, j \in DOMAIN users : users[i] = users[j] => i = j

\* C37: given installs whose admin and member participant lists contain no
\* duplicates, every role list of every service instance contains each user
\* id at most once in every reachable state, under any sequence of
\* addUserRole, removeUserRole and participant join, promote, demote and
\* leave events.
C37_RoleListsWithoutDuplicates ==
    \A c \in Chats :
       state.chats[c].exists =>
          \A s \in DOMAIN state.chats[c].services :
             state.chats[c].services[s].installed =>
                \A r \in DOMAIN state.chats[c].services[s].roles :
                   NoDuplicates(state.chats[c].services[s].roles[r])

\* C37 witness: a join event that names u2 twice has been handled while the
\* expense service is installed, and u2 is in its member list
C37_Witness ==
    /\ last.op = "participants"
    /\ last.type = "join"
    /\ last.jids = <<"u2", "u2">>
    /\ isServiceInstalled(state, "g1@g.us", "exp")
    /\ "u2" \in Range(state.chats["g1@g.us"].services["exp"].roles["member"])

(***************************************************************************)
(* Sessions of several pairs.  Both users send root commands in the group  *)
(* and in the private chat: addRoot with the user id, addRoot without it,  *)
(* which opens a session of the sender in the chat, answers to the prompt  *)
(* and `cancel`; time passes, so sessions expire.                          *)
(***************************************************************************)
PairBodies ==
    {Command(".root addRoot u2", <<"root", "addRoot", "u2">>),
     Command(".root addRoot", <<"root", "addRoot">>),
     Plain("u2"), Plain("cancel")}

\* a user sends a message in a chat
PairMessage ==
    \E userId \in Users, chatId \in Chats, body \in PairBodies :
       Route(userId, chatId, body, Env("text", GroupParticipants))

NextPairs == PairMessage \/ Tick

SpecPairs == Init /\ [][NextPairs]_vars

\* C38: a message from (chatId, userId) reads, advances or deletes only
\* sessions whose chatId and userId both equal its own: the message is
\* consumed by a session exactly when its own pair has one that has not
\* expired, and the sessions of the same user in another chat and of other
\* users in the same chat are unchanged.
C38_OnlyOwnSessions ==
    [][last'.op = "route" =>
          /\ (last'.action # "no_session") <=> last'.hadSession
          /\ \A c \in Chats, u \in Users :
                (c # last'.chatId \/ u # last'.userId) =>
                   SessionsOf(state', c, u) = SessionsOf(state, c, u)]_vars

\* C38 witness: an answer of u1 in the group has completed u1's session of
\* the group while u1 has a session in the private chat
C38_Witness ==
    /\ last.op = "route"
    /\ last.userId = "u1"
    /\ last.chatId = "g1@g.us"
    /\ last.action = "complete"
    /\ SessionsOf(state, "g1@g.us", "u1") = {}
    /\ SessionsOf(state, "p1@s.whatsapp.net", "u1") # {}

====
